---- MODULE Spec2Model ----
(***************************************************************************)
(* Volume cache and timeline engine of Open Chrono-Morph Viewer.           *)
(*                                                                         *)
(* Timeline (src/main/timeline.py) owns the sorted list of VolumeImage     *)
(* handles (src/main/volumeimage.py), the cursor, the memory tally and the *)
(* cache daemon.  Three threads are modelled: the UI thread ("ui"), the    *)
(* volume updater thread ("upd", src/volumeupdater.py) and the cache       *)
(* daemon ("cache").  Each step is one lock-free read/write group or one   *)
(* critical section body of the source.                                    *)
(***************************************************************************)
EXTENDS Integers, Sequences, FiniteSets, TLC

\* ---- bounds of the model ------------------------------------------------
MaxSources == 2      \* longest file list passed to set_file_paths (Spec)
MaxSeqSources == 3   \* longest file list in the single-threaded SpecSeq
MaxSfp == 2          \* number of set_file_paths calls
MaxTarget == 2       \* largest memory_target set (Spec)
MaxSeqTarget == 3    \* memory_target ranges over 0..MaxSeqTarget (SpecSeq)
MaxClock == 1        \* time.time() ranges over 0..MaxClock (Spec)
MaxSeqClock == 2     \* time.time() ranges over 0..MaxSeqClock (SpecSeq)
MaxDeficit == 1      \* unload_volume is not called once the tally is this far below 0

\* ---- threads ------------------------------------------------------------
Threads == {"ui", "upd", "cache"}
Free == "free"
\* mainwindow registers [auto_player, volume_updater] as priority threaders.
NThreaders == 2

VARIABLES
    hs,                         \* the VolumeImage objects still referenced: id -> fields
    volumes,                    \* Timeline.volumes: sequence of handle ids
    index,                      \* Timeline.index (0-based)
    indices_by_cache_priority,  \* Timeline.indices_by_cache_priority (0-based indices)
    memory_used,                \* Timeline.memory_used
    memory_target,              \* Timeline.memory_target
    available,                  \* Timeline.available
    load_lock,                  \* holder of Timeline.load_lock, or Free
    clock,                      \* last value returned by time.time()
    pc,                         \* position of each thread
    sfp_src,                    \* set_file_paths: the sources processed by the header loop
    sfp_new,                    \* set_file_paths: local list "volumes"
    sfp_errs,                   \* set_file_paths: local list "file_errors" (source positions)
    sfp_old,                    \* set_file_paths: the list it replaced, until it returns
    sfp_dropped,                \* set_file_paths: the handles its unload loop found resident
    sfp_loads,                  \* a payload was loaded since set_file_paths replaced the list
    sfp_count,                  \* number of set_file_paths calls made so far
    g_index,                    \* get/_load_volume: argument "index", per calling thread
    g_vol,                      \* handle returned by get, per calling thread (0 = none)
    u_v,                        \* unload_volume: local "v" (0 = none)
    d_p,                        \* _run_cache: position in priority_threaders
    d_order,                    \* _run_cache: the list the for loop iterates
    d_k,                        \* _run_cache: position of the for loop in d_order
    d_v,                        \* _run_cache: local "v" (0 = none)
    d_t,                        \* _run_cache: the Thread object in local "t"
    player_alive,               \* auto_player.thread is alive
    evicted,                    \* handles unloaded by the latest _load_volume, in order
    p_pc,                       \* position of the AutoPlayer thread in TimelineSlider.add
    p_index,                    \* TimelineSlider.add: the index it passes to set_index
    nav_dir,                    \* TimelineSlider._on_next_group / _on_prev_group in progress
    nav_i,                      \* the index get_next/prev_group_index returned to it
    vi,                         \* one VolumeImage object on its own: its fields
    vi_log,                     \* what each load() / unload() call on it returned and left
    extra_daemons,              \* _run_cache threads started by further start_caching calls
    hl,                         \* the header loop of set_file_paths, step by step
    lk,                         \* per thread: the locks it holds and the lock steps ahead
    vu                          \* the VolumeUpdater: its flag, lock and threads

vars == <<hs, volumes, index, indices_by_cache_priority, memory_used,
          memory_target, available, load_lock, clock, pc, sfp_src, sfp_new,
          sfp_errs, sfp_old, sfp_dropped, sfp_loads, sfp_count, g_index, g_vol, u_v, d_p, d_order, d_k, d_v,
          d_t, player_alive, evicted, p_pc, p_index, nav_dir, nav_i, vi, vi_log,
          extra_daemons, hl, lk, vu>>

tlVars == <<volumes, index, indices_by_cache_priority, memory_used, available>>
sfpVars == <<sfp_src, sfp_new, sfp_errs, sfp_old, sfp_dropped, sfp_loads, sfp_count>>
getVars == <<g_index, g_vol, evicted>>
dVars == <<d_p, d_order, d_k, d_v, d_t>>
navVars == <<nav_dir, nav_i>>
viVars == <<vi, vi_log>>
zVars == <<lk, vu>>
yVars == <<extra_daemons, hl, zVars>>
xVars == <<p_pc, p_index, navVars, viVars, yVars>>
\* Every variable but the fields seek writes and the locals of the slider.
coreVars == <<hs, memory_used, memory_target, available, load_lock, clock, pc,
              sfpVars, getVars, u_v, dVars, player_alive>>

\* ---- helpers ------------------------------------------------------------
Range(s) == {s[k] : k \in 1..Len(s)}

RECURSIVE SumCost(_, _)
SumCost(h, S) ==
    IF S = {} THEN 0
    ELSE LET x == CHOOSE y \in S : TRUE IN h[x].cost + SumCost(h, S \ {x})

\* VolumeImage.is_loaded
is_loaded(h, v) == h[v].loaded

\* VolumeImage.estimate_memory
estimate_memory(h, v) == h[v].cost

\* The return value of VolumeImage.load: a FileError when the handle is not
\* resident and its file cannot be read.
load_error(h, v) == ~h[v].loaded /\ h[v].payload # "ok"

\* Variant of load without the is_loaded check of lines 393-394.
LoadAgain(h, v) ==
    [h EXCEPT ![v].loaded = TRUE,
              ![v].failed = (h[v].payload # "ok"),
              ![v].reads = @ + 1]

\* VolumeImage.load: no-op when already loaded, otherwise the file is read and
\* the payload, or the placeholder of _fail_load, is installed.  reads counts
\* the reads of the file since the handle was last without payload.
load(h, v) ==
    IF h[v].loaded THEN h
    ELSE [h EXCEPT ![v].loaded = TRUE,
                   ![v].failed = (h[v].payload # "ok"),
                   ![v].reads = @ + 1]

\* ErrorReporter.file_errors([error_message]) for the load of handle v;
\* reports counts the reports made for the payload the handle holds.
file_errors(h, v) == [h EXCEPT ![v].reports = @ + 1]

\* VolumeImage.unload
unload(h, v) ==
    [h EXCEPT ![v].loaded = FALSE, ![v].failed = FALSE, ![v].reads = 0,
              ![v].reports = 0]

\* Variant of UnloadAll that leaves every payload in place.
UnloadNone(h, s) == h

\* "for v in ...: v.unload()"
RECURSIVE UnloadAll(_, _)
UnloadAll(h, s) ==
    IF s = <<>> THEN h ELSE UnloadAll(unload(h, Head(s)), Tail(s))

\* Resident handles of the list vols.
Resident(h, vols) == {v \in Range(vols) : h[v].loaded}

\* A VolumeImage that nothing references any more is freed: only the
\* referenced ones are kept.
Collect(h, live) == [v \in (DOMAIN h) \cap live |-> h[v]]

\* Identities for n new objects, none of them in use.
RECURSIVE FreshIds(_, _)
FreshIds(used, n) ==
    IF n = 0 THEN <<>>
    ELSE LET i == CHOOSE i \in 1..(Cardinality(used) + 1) :
                      i \notin used /\ \A j \in 1..(i - 1) : j \in used
         IN <<i>> \o FreshIds(used \cup {i}, n - 1)

\* ---- sources and metadata ingestion ---------------------------------------
\* A source whose read_header fails, and the sources whose header is read.
BadSource ==
    [ok |-> FALSE, grp |-> 0, tim |-> 0, n_times |-> 1, cost |-> 0,
     payload |-> "unreadable", period |-> 1]

\* The files on disk: what read_header finds in each (group_index, time_index,
\* n_times, period and the size estimate_memory reports), or that it fails,
\* and whether a later load can read the payload.
Files ==
    <<BadSource,
      [ok |-> TRUE, grp |-> 0, tim |-> 1, n_times |-> 2, cost |-> 1, payload |-> "ok",
       period |-> 1],
      [ok |-> TRUE, grp |-> 0, tim |-> 0, n_times |-> 2, cost |-> 2, payload |-> "ok",
       period |-> 2],
      BadSource,
      [ok |-> TRUE, grp |-> 1, tim |-> 0, n_times |-> 2, cost |-> 1, payload |-> "ok",
       period |-> 1],
      [ok |-> TRUE, grp |-> 1, tim |-> 0, n_times |-> 2, cost |-> 2, payload |-> "ok",
       period |-> 3],
      [ok |-> TRUE, grp |-> 0, tim |-> 0, n_times |-> 2, cost |-> 1,
       payload |-> "unreadable", period |-> 1]>>

\* The lists of at most n distinct files among the first nf of Files.
PathLists(nf, n) ==
    {[k \in DOMAIN p |-> Files[p[k]]] :
        p \in {q \in UNION {[1..k -> 1..nf] : k \in 1..n} :
                  \A a, b \in DOMAIN q : a # b => q[a] # q[b]}}

\* The header loop of set_file_paths: the sources it processes.  cancel = k
\* means progress_callback(k) returned True; cancel = 0 means it never did.
Processed(paths, cancel) ==
    IF cancel \in 1..Len(paths) THEN SubSeq(paths, 1, cancel) ELSE paths

\* Variant of ErrorIndices that stops at the first failure.
RECURSIVE ErrorIndicesFirst(_, _)
ErrorIndicesFirst(src, k) ==
    IF k > Len(src) THEN <<>>
    ELSE IF src[k].ok THEN ErrorIndicesFirst(src, k + 1) ELSE <<k>>

\* volume_error_indices (1-based positions), ascending.
RECURSIVE ErrorIndices(_, _)
ErrorIndices(src, k) ==
    IF k > Len(src) THEN <<>>
    ELSE (IF src[k].ok THEN <<>> ELSE <<k>>) \o ErrorIndices(src, k + 1)

DelAt(s, i) == SubSeq(s, 1, i - 1) \o SubSeq(s, i + 1, Len(s))

\* "for i in reversed(volume_error_indices): del volumes[i]"
RECURSIVE RemoveErrors(_, _)
RemoveErrors(s, idx) ==
    IF idx = <<>> THEN s
    ELSE RemoveErrors(DelAt(s, idx[Len(idx)]), SubSeq(idx, 1, Len(idx) - 1))

\* Sort key (group_index, time_index), compared as Python compares tuples.
KeyLeq(a, b) == a.grp < b.grp \/ (a.grp = b.grp /\ a.tim <= b.tim)

InsertVol(x, t) ==
    LET k == Cardinality({j \in 1..Len(t) : KeyLeq(t[j], x)})
    IN SubSeq(t, 1, k) \o <<x>> \o SubSeq(t, k + 1, Len(t))

\* Variant of SortVolumes that keeps the input order.
SortNone(s) == s

\* list.sort(key=...) is stable: equal keys keep their input order.
RECURSIVE SortVolumes(_)
SortVolumes(s) ==
    IF s = <<>> THEN <<>>
    ELSE InsertVol(s[Len(s)], SortVolumes(SubSeq(s, 1, Len(s) - 1)))

\* Variant of LabelLoop that never resets the accumulated time.
RECURSIVE LabelLoopNoReset(_, _, _, _)
LabelLoopNoReset(s, k, g, time_sum) ==
    IF k > Len(s) THEN <<>>
    ELSE <<[time_sum |-> time_sum, index |-> k - 1, n_volumes |-> Len(s)]>>
            \o LabelLoopNoReset(s, k + 1, s[k].grp, time_sum + s[k].period)

\* Lines 168-177: the arguments of v.make_label for each volume of the sorted
\* list s from position k on; g is the local group_index (-1 for None).
RECURSIVE LabelLoop(_, _, _, _)
LabelLoop(s, k, g, time_sum) ==
    IF k > Len(s) THEN <<>>
    ELSE LET t0 == IF s[k].grp # g THEN 0 ELSE time_sum
         IN <<[time_sum |-> t0, index |-> k - 1, n_volumes |-> Len(s)]>>
               \o LabelLoop(s, k + 1, s[k].grp, t0 + s[k].period)

\* The volumes of s, each with the label make_label gave it.
MakeLabels(s) ==
    LET l == LabelLoop(s, 1, 0 - 1, 0)
    IN [k \in 1..Len(s) |-> [label |-> l[k]] @@ s[k]]

NewHandle(src) ==
    [grp |-> src.grp, tim |-> src.tim, n_times |-> src.n_times,
     cost |-> src.cost, loaded |-> FALSE, atime |-> 0,
     payload |-> src.payload, failed |-> FALSE, reads |-> 0, reports |-> 0,
     period |-> src.period, label |-> src.label]

\* ---- cache priorities -----------------------------------------------------
\* priority(i) = 4 / (1 + forward) + 1 / (1 + backward), kept as a fraction.
Forward(i, idx, n) == (i - idx) % n
Backward(i, idx, n) == (idx - i) % n
\* Variant of PrioNum with the bias of 4 on the backward distance.
PrioNumBackward(i, idx, n) ==
    4 * (1 + Forward(i, idx, n)) + (1 + Backward(i, idx, n))

PrioNum(i, idx, n) == 4 * (1 + Backward(i, idx, n)) + (1 + Forward(i, idx, n))
PrioDen(i, idx, n) == (1 + Forward(i, idx, n)) * (1 + Backward(i, idx, n))
\* Variant of PrioGeq for a sort without reverse=True.
PrioLeq(i, j, idx, n) ==
    PrioNum(i, idx, n) * PrioDen(j, idx, n) <= PrioNum(j, idx, n) * PrioDen(i, idx, n)

PrioGeq(i, j, idx, n) ==
    PrioNum(i, idx, n) * PrioDen(j, idx, n) >= PrioNum(j, idx, n) * PrioDen(i, idx, n)

\* list(range(len(self.volumes)))
RangeList(n) == [k \in 1..n |-> k - 1]

InsertPrio(x, t, idx, n) ==
    LET k == Cardinality({j \in 1..Len(t) : PrioGeq(t[j], x, idx, n)})
    IN SubSeq(t, 1, k) \o <<x>> \o SubSeq(t, k + 1, Len(t))

\* Variant of SortPrio that leaves the list as it was assigned.
SortPrioNone(s, idx, n) == s

\* sort(key=priority, reverse=True): descending and stable.
RECURSIVE SortPrio(_, _, _)
SortPrio(s, idx, n) ==
    IF s = <<>> THEN <<>>
    ELSE InsertPrio(s[Len(s)], SortPrio(SubSeq(s, 1, Len(s) - 1), idx, n), idx, n)

\* ---- the header loop of set_file_paths, one source at a time -----------------
\* No set_file_paths call is in its header loop.
NoHeaderLoop ==
    [at |-> "idle", paths |-> <<>>, cancel |-> 0, i |-> 0, volumes |-> <<>>,
     reads |-> <<>>, calls |-> <<>>, file_errors |-> <<>>,
     volume_error_indices |-> <<>>]

\* ---- locks, and the VolumeUpdater, as constructed ------------------------------
\* No thread holds or awaits a lock.
NoLocks == [t \in Threads |-> [held |-> {}, todo |-> <<>>]]

\* VolumeUpdater.__init__: no thread, the flag down, the lock free.  threads
\* holds the position of every thread started so far, thread the one that
\* self.thread refers to (0 for None); queued counts the queue() calls and
\* seen is its value when timeline.index was last read by an update.
NewVolumeUpdater ==
    [must_update |-> FALSE, load_lock |-> Free, thread |-> 0, threads |-> <<>>,
     q |-> "idle", queued |-> 0, seen |-> 0]

\* ---- Timeline.set_file_paths ----------------------------------------------
\* Lines 133-181: build the handles, read the headers, drop the failures,
\* sort, label, and take the load lock.  Everything before the lock is local to the
\* call.
SfpRead(paths, cancel) ==
    /\ pc["ui"] = "idle"
    /\ sfp_count < MaxSfp
    /\ load_lock = Free
    /\ load_lock' = "ui"
    /\ LET src == Processed(paths, cancel)
           idx == ErrorIndices(src, 1)
       IN /\ sfp_src' = src
          /\ sfp_errs' = idx
          /\ sfp_new' = MakeLabels(SortVolumes(RemoveErrors(src, idx)))
    /\ sfp_count' = sfp_count + 1
    /\ pc' = [pc EXCEPT !["ui"] = "sfp_body"]
    /\ UNCHANGED <<hs, tlVars, memory_target, clock, sfp_old, sfp_dropped,
                   sfp_loads, getVars, u_v, dVars, player_alive, xVars>>

\* The objects referenced when set_file_paths has returned.
LiveAfterSfp == Range(volumes) \cup {g_vol["ui"], g_vol["upd"], u_v, d_v}

\* Variant of SfpReplace that zeroes memory_used and the cursor when nothing
\* was read.
SfpReplaceZeroes ==
    /\ pc["ui"] = "sfp_body"
    /\ IF Len(sfp_new) > 0
       THEN LET n == Len(sfp_new)
                ids == FreshIds(DOMAIN hs, n)
            IN /\ hs' = UnloadAll(hs, volumes)
                          @@ [v \in Range(ids) |->
                                 NewHandle(sfp_new[CHOOSE k \in 1..n : ids[k] = v])]
               /\ volumes' = ids
               /\ sfp_old' = volumes
               /\ sfp_dropped' = Resident(hs, volumes)
               /\ memory_used' = 0
               /\ index' = 0
               /\ indices_by_cache_priority' = RangeList(n)
               /\ pc' = [pc EXCEPT !["ui"] = "sfp_sort"]
               /\ UNCHANGED <<load_lock, sfp_src, sfp_new, sfp_errs>>
       ELSE /\ load_lock' = Free
            /\ sfp_src' = <<>>
            /\ sfp_new' = <<>>
            /\ sfp_errs' = <<>>
            /\ pc' = [pc EXCEPT !["ui"] = "idle"]
            /\ memory_used' = 0
            /\ index' = 0
            /\ UNCHANGED <<hs, volumes,
                           indices_by_cache_priority, sfp_old, sfp_dropped>>
    /\ UNCHANGED <<available, memory_target, clock, sfp_count, sfp_loads,
                   getVars, u_v, dVars, player_alive, xVars>>

\* Variant of SfpReplace that clears available when nothing was read.
SfpReplaceReverts ==
    /\ pc["ui"] = "sfp_body"
    /\ IF Len(sfp_new) > 0
       THEN LET n == Len(sfp_new)
                ids == FreshIds(DOMAIN hs, n)
            IN /\ hs' = UnloadAll(hs, volumes)
                          @@ [v \in Range(ids) |->
                                 NewHandle(sfp_new[CHOOSE k \in 1..n : ids[k] = v])]
               /\ volumes' = ids
               /\ sfp_old' = volumes
               /\ sfp_dropped' = Resident(hs, volumes)
               /\ memory_used' = 0
               /\ index' = 0
               /\ indices_by_cache_priority' = RangeList(n)
               /\ pc' = [pc EXCEPT !["ui"] = "sfp_sort"]
               /\ UNCHANGED <<load_lock, sfp_src, sfp_new, sfp_errs, available>>
       ELSE /\ load_lock' = Free
            /\ sfp_src' = <<>>
            /\ sfp_new' = <<>>
            /\ sfp_errs' = <<>>
            /\ pc' = [pc EXCEPT !["ui"] = "idle"]
            /\ available' = FALSE
            /\ UNCHANGED <<hs, volumes, memory_used, index,
                           indices_by_cache_priority, sfp_old, sfp_dropped>>
    /\ UNCHANGED <<memory_target, clock, sfp_count, sfp_loads,
                   getVars, u_v, dVars, player_alive, xVars>>

\* Lines 182-198 up to the assignment of the unsorted priority list in
\* _make_cache_priorities (line 406); lines 202-205 when nothing was read.
SfpReplace ==
    /\ pc["ui"] = "sfp_body"
    /\ IF Len(sfp_new) > 0
       THEN LET n == Len(sfp_new)
                ids == FreshIds(DOMAIN hs, n)
            IN /\ hs' = UnloadAll(hs, volumes)
                          @@ [v \in Range(ids) |->
                                 NewHandle(sfp_new[CHOOSE k \in 1..n : ids[k] = v])]
               /\ volumes' = ids
               /\ sfp_old' = volumes
               /\ sfp_dropped' = Resident(hs, volumes)
               /\ memory_used' = 0
               /\ index' = 0
               /\ indices_by_cache_priority' = RangeList(n)
               /\ pc' = [pc EXCEPT !["ui"] = "sfp_sort"]
               /\ UNCHANGED <<load_lock, sfp_src, sfp_new, sfp_errs>>
       ELSE /\ load_lock' = Free
            /\ sfp_src' = <<>>
            /\ sfp_new' = <<>>
            /\ sfp_errs' = <<>>
            /\ pc' = [pc EXCEPT !["ui"] = "idle"]
            /\ UNCHANGED <<hs, volumes, memory_used, index,
                           indices_by_cache_priority, sfp_old, sfp_dropped>>
    /\ UNCHANGED <<available, memory_target, clock, sfp_count, sfp_loads,
                   getVars, u_v, dVars, player_alive, xVars>>

\* Line 407 (the sort of _make_cache_priorities), line 200, the release of
\* the lock and line 205: "return file_errors".
SfpSort ==
    /\ pc["ui"] = "sfp_sort"
    /\ indices_by_cache_priority' =
           SortPrio(indices_by_cache_priority, index, Len(volumes))
    /\ available' = TRUE
    /\ load_lock' = Free
    /\ sfp_src' = <<>>
    /\ sfp_new' = <<>>
    /\ sfp_errs' = <<>>
    /\ sfp_old' = <<>>
    /\ sfp_dropped' = {}
    /\ sfp_loads' = FALSE
    /\ hs' = Collect(hs, LiveAfterSfp)
    /\ pc' = [pc EXCEPT !["ui"] = "idle"]
    /\ UNCHANGED <<volumes, index, memory_used, memory_target, clock,
                   sfp_count, getVars, u_v, dVars, player_alive, xVars>>

\* ---- Timeline.seek --------------------------------------------------------
\* Lines 212-214 and _make_cache_priorities up to line 406: the cursor is set
\* and the new, still unsorted, priority list is assigned.
SeekAssign(i) ==
    /\ pc["ui"] = "idle"
    /\ Len(volumes) > 0
    /\ i \in 0..(Len(volumes) - 1)
    /\ index' = i
    /\ indices_by_cache_priority' = RangeList(Len(volumes))
    /\ pc' = [pc EXCEPT !["ui"] = "seek_sort"]
    /\ UNCHANGED <<hs, volumes, memory_used, available, memory_target,
                   load_lock, clock, sfpVars, getVars, u_v, dVars, player_alive, xVars>>

\* Line 407: the priority list is sorted in place.
SeekSort ==
    /\ pc["ui"] = "seek_sort"
    /\ indices_by_cache_priority' =
           SortPrio(indices_by_cache_priority, index, Len(volumes))
    /\ pc' = [pc EXCEPT !["ui"] = "idle"]
    /\ UNCHANGED <<hs, volumes, index, memory_used, available, memory_target,
                   load_lock, clock, sfpVars, getVars, u_v, dVars, player_alive, xVars>>

\* ---- threads that end ------------------------------------------------------
\* priority_threaders[p].thread is alive (1 = auto_player, 2 = volume_updater).
ThreaderAlive(p) == IF p = 1 THEN player_alive ELSE pc["upd"] # "idle"

\* The Thread object held by the daemon once the thread of threader p ends.
JoinedThread(p) == IF d_t = "alive" /\ d_p = p THEN "dead" ELSE d_t

\* Thread t leaves its call: the updater thread ends with it.
Leave(t) ==
    /\ pc' = [pc EXCEPT ![t] = "idle"]
    /\ g_index' = [g_index EXCEPT ![t] = 0]
    /\ d_t' = IF t = "upd" THEN JoinedThread(2) ELSE d_t

\* The objects referenced once thread t has dropped the handle it obtained
\* and the daemon its local v (drop_d).
LiveAfter(t, drop_d) ==
    Range(volumes) \cup Range(sfp_old) \cup {u_v}
        \cup {g_vol[o] : o \in {"ui", "upd"} \ {t}}
        \cup (IF drop_d THEN {} ELSE {d_v})

\* ---- Timeline.get and Timeline._load_volume -------------------------------
\* Lines 228-234: get(index, preload=True) is entered.
GetBegin(t, i) ==
    /\ pc[t] = "idle"
    /\ available
    /\ i \in 0..(Len(volumes) - 1)
    /\ g_index' = [g_index EXCEPT ![t] = i]
    /\ pc' = [pc EXCEPT ![t] = "lv_acq"]
    /\ UNCHANGED <<hs, tlVars, memory_target, load_lock, clock, sfpVars,
                   g_vol, evicted, u_v, dVars, player_alive, xVars>>

\* Line 246: "with self.load_lock".
LvAcquire(t) ==
    /\ pc[t] = "lv_acq"
    /\ load_lock = Free
    /\ load_lock' = t
    /\ pc' = [pc EXCEPT ![t] = "lv_body"]
    /\ UNCHANGED <<hs, tlVars, memory_target, clock, sfpVars, getVars, u_v,
                   dVars, player_alive, xVars>>

\* sorted(filter(is_loaded, self.volumes), key=access_time): stable, so equal
\* access times keep the order of self.volumes.
AtimeInsert(h, x, t) ==
    LET k == Cardinality({j \in 1..Len(t) : h[t[j]].atime <= h[x].atime})
    IN SubSeq(t, 1, k) \o <<x>> \o SubSeq(t, k + 1, Len(t))

RECURSIVE SortByAtime(_, _)
SortByAtime(h, s) ==
    IF s = <<>> THEN <<>>
    ELSE AtimeInsert(h, s[Len(s)], SortByAtime(h, SubSeq(s, 1, Len(s) - 1)))

\* Variant of Candidates without the access_time key.
CandidatesUnsorted(h, vols) == SelectSeq(vols, LAMBDA v : is_loaded(h, v))

Candidates(h, vols) ==
    SortByAtime(h, SelectSeq(vols, LAMBDA v : is_loaded(h, v)))

\* Variant of EvictLoop that unloads at most one handle.
EvictLoopOnce(h, cands, used, target) ==
    IF cands = <<>> \/ used <= target THEN <<>> ELSE <<Head(cands)>>

\* Lines 254-262: the eviction loop; the result is the sequence of unloaded
\* handles.
RECURSIVE EvictLoop(_, _, _, _)
EvictLoop(h, cands, used, target) ==
    IF cands = <<>> \/ used <= target THEN <<>>
    ELSE <<Head(cands)>> \o
         EvictLoop(h, Tail(cands), used - estimate_memory(h, Head(cands)), target)

\* Lines 247-271: the body of _load_volume and the release of the lock; an
\* error returned by vol.load() goes to the error reporter (lines 268-270).
LvBody(t) ==
    /\ pc[t] = "lv_body"
    /\ load_lock' = Free
    /\ IF g_index[t] >= Len(volumes)
       THEN \* self.volumes[index] raises IndexError
            /\ Leave(t)
            /\ UNCHANGED <<hs, memory_used, evicted>>
       ELSE LET vol == volumes[g_index[t] + 1] IN
            IF is_loaded(hs, vol)
            THEN /\ pc' = [pc EXCEPT ![t] = "lv_ret"]
                 /\ evicted' = <<>>
                 /\ UNCHANGED <<hs, memory_used, d_t, g_index>>
            ELSE LET ev == EvictLoop(hs, Candidates(hs, volumes),
                                     memory_used + estimate_memory(hs, vol),
                                     memory_target)
                     h == load(UnloadAll(hs, ev), vol)
                 IN /\ hs' = IF load_error(hs, vol) THEN file_errors(h, vol) ELSE h
                    /\ memory_used' = memory_used + estimate_memory(hs, vol)
                                        - SumCost(hs, Range(ev))
                    /\ evicted' = ev
                    /\ pc' = [pc EXCEPT ![t] = "lv_ret"]
                    /\ UNCHANGED <<d_t, g_index>>
    /\ UNCHANGED <<volumes, index, indices_by_cache_priority, available,
                   memory_target, clock, sfpVars, g_vol, u_v,
                   d_p, d_order, d_k, d_v, player_alive, xVars>>

\* Line 235: "return self.volumes[index]".
GetReturn(t) ==
    /\ pc[t] = "lv_ret"
    /\ evicted' = <<>>
    /\ IF g_index[t] >= Len(volumes)
       THEN /\ Leave(t)
            /\ UNCHANGED g_vol
       ELSE /\ g_vol' = [g_vol EXCEPT ![t] = volumes[g_index[t] + 1]]
            /\ pc' = [pc EXCEPT ![t] = "got"]
            /\ UNCHANGED <<d_t, g_index>>
    /\ UNCHANGED <<hs, tlVars, memory_target, load_lock, clock, sfpVars,
                   u_v, d_p, d_order, d_k, d_v, player_alive, xVars>>

\* VolumeImage.vtk_image, called by ViewFrame.set_volume_input: the access
\* time is set and the payload loaded if it is not resident.
VtkImage(t, maxclock) ==
    /\ pc[t] = "got"
    /\ \E now \in {clock, clock + 1} :
          /\ now <= maxclock
          /\ clock' = now
          /\ hs' = Collect(load([hs EXCEPT ![g_vol[t]].atime = now], g_vol[t]),
                            LiveAfter(t, FALSE))
    /\ sfp_loads' = (sfp_loads \/ (pc["ui"] = "sfp_sort" /\ ~is_loaded(hs, g_vol[t])))
    /\ g_vol' = [g_vol EXCEPT ![t] = 0]
    /\ Leave(t)
    /\ UNCHANGED <<tlVars, memory_target, load_lock, sfp_src, sfp_new, sfp_errs,
                   sfp_old, sfp_dropped, sfp_count, evicted, u_v, d_p, d_order,
                   d_k, d_v, player_alive, xVars>>

\* The caller keeps the handle without obtaining its image
\* (Scene.on_timeline_loaded).
GetDone(t) ==
    /\ pc[t] = "got"
    /\ g_vol' = [g_vol EXCEPT ![t] = 0]
    /\ hs' = Collect(hs, LiveAfter(t, FALSE))
    /\ Leave(t)
    /\ UNCHANGED <<tlVars, memory_target, load_lock, clock, sfpVars,
                   evicted, u_v, d_p, d_order, d_k, d_v, player_alive, xVars>>

\* ---- Timeline.unload_volume -----------------------------------------------
\* Lines 276-279: v is read and the lock taken.
UnloadAcquire(i) ==
    /\ pc["ui"] = "idle"
    /\ available
    /\ i \in 0..(Len(volumes) - 1)
    /\ memory_used - estimate_memory(hs, volumes[i + 1]) >= 0 - MaxDeficit
    /\ load_lock = Free
    /\ load_lock' = "ui"
    /\ u_v' = volumes[i + 1]
    /\ pc' = [pc EXCEPT !["ui"] = "ul_body"]
    /\ UNCHANGED <<hs, tlVars, memory_target, clock, sfpVars, getVars, dVars,
                   player_alive, xVars>>

\* Lines 280-281 and the release of the lock.
UnloadBody ==
    /\ pc["ui"] = "ul_body"
    /\ hs' = unload(hs, u_v)
    /\ memory_used' = memory_used - estimate_memory(hs, u_v)
    /\ load_lock' = Free
    /\ u_v' = 0
    /\ pc' = [pc EXCEPT !["ui"] = "idle"]
    /\ UNCHANGED <<volumes, index, indices_by_cache_priority, available,
                   memory_target, clock, sfpVars, getVars, dVars, player_alive, xVars>>

\* ---- CacheLimiter: timeline.memory_target = cache_limit --------------------
\* Variant of SetMemoryTarget that unloads every resident volume.
SetMemoryTargetEvicts(m) ==
    /\ pc["ui"] = "idle"
    /\ m # memory_target
    /\ memory_target' = m
    /\ hs' = UnloadAll(hs, volumes)
    /\ memory_used' = 0
    /\ UNCHANGED <<volumes, index, indices_by_cache_priority, available,
                   load_lock, clock, pc, sfpVars, getVars, u_v, dVars,
                   player_alive, xVars>>

SetMemoryTarget(m) ==
    /\ pc["ui"] = "idle"
    /\ m # memory_target
    /\ memory_target' = m
    /\ UNCHANGED <<hs, tlVars, load_lock, clock, pc, sfpVars, getVars, u_v,
                   dVars, player_alive, xVars>>

\* ---- priority threaders ----------------------------------------------------
\* AutoPlayer.set_playing(True) starts its thread when none is alive.
PlayerStart ==
    /\ ~player_alive
    /\ player_alive' = TRUE
    /\ UNCHANGED <<hs, tlVars, memory_target, load_lock, clock, pc, sfpVars,
                   getVars, u_v, d_p, d_order, d_k, d_v, d_t, xVars>>

\* AutoPlayer._run returns.
PlayerStop ==
    /\ player_alive
    /\ p_pc = "idle"
    /\ player_alive' = FALSE
    /\ d_t' = JoinedThread(1)
    /\ UNCHANGED <<hs, tlVars, memory_target, load_lock, clock, pc, sfpVars,
                   getVars, u_v, d_p, d_order, d_k, d_v, xVars>>

\* ---- Timeline.start_caching and Timeline._run_cache ------------------------
StartCaching ==
    /\ pc["ui"] = "idle"
    /\ pc["cache"] = "off"
    /\ pc' = [pc EXCEPT !["cache"] = "d_wait"]
    /\ UNCHANGED <<hs, tlVars, memory_target, load_lock, clock, sfpVars,
                   getVars, u_v, dVars, player_alive, xVars>>

\* The daemon's position after it is done with threader p (the "continue" of
\* line 461 goes on with the next threader).
AfterThreader(p) == IF p < NThreaders THEN "d_wait" ELSE "d_check"
NextThreader(p) == IF p < NThreaders THEN p + 1 ELSE 1

\* Lines 457-460: one threader is examined; join() is entered if its thread
\* is alive.
DWait ==
    /\ pc["cache"] = "d_wait"
    /\ IF ThreaderAlive(d_p)
       THEN /\ d_t' = "alive"
            /\ pc' = [pc EXCEPT !["cache"] = "d_join"]
            /\ UNCHANGED d_p
       ELSE /\ pc' = [pc EXCEPT !["cache"] = AfterThreader(d_p)]
            /\ d_p' = NextThreader(d_p)
            /\ UNCHANGED d_t
    /\ UNCHANGED <<hs, tlVars, memory_target, load_lock, clock, sfpVars,
                   getVars, u_v, d_order, d_k, d_v, player_alive, xVars>>

\* Variant of DJoinReturn that does not wait for the thread.
DJoinNoWait ==
    /\ pc["cache"] = "d_join"
    /\ d_t' = "none"
    /\ pc' = [pc EXCEPT !["cache"] = AfterThreader(d_p)]
    /\ d_p' = NextThreader(d_p)
    /\ UNCHANGED <<hs, tlVars, memory_target, load_lock, clock, sfpVars,
                   getVars, u_v, d_order, d_k, d_v, player_alive, xVars>>

\* Line 460: t.join() returns once the joined thread has ended.
DJoinReturn ==
    /\ pc["cache"] = "d_join"
    /\ d_t = "dead"
    /\ d_t' = "none"
    /\ pc' = [pc EXCEPT !["cache"] = AfterThreader(d_p)]
    /\ d_p' = NextThreader(d_p)
    /\ UNCHANGED <<hs, tlVars, memory_target, load_lock, clock, sfpVars,
                   getVars, u_v, d_order, d_k, d_v, player_alive, xVars>>

\* Lines 463-476: sleep and retry when nothing is available or the memory is
\* full, otherwise start the scan of indices_by_cache_priority.
DCheck ==
    /\ pc["cache"] = "d_check"
    /\ IF ~available \/ memory_used >= memory_target
       THEN /\ pc' = [pc EXCEPT !["cache"] = "d_wait"]
            /\ UNCHANGED <<d_order, d_k>>
       ELSE /\ d_order' = indices_by_cache_priority
            /\ d_k' = 1
            /\ pc' = [pc EXCEPT !["cache"] = "d_scan"]
    /\ UNCHANGED <<hs, tlVars, memory_target, load_lock, clock, sfpVars,
                   getVars, u_v, d_p, d_v, d_t, player_alive, xVars>>

\* Lines 476-478: one step of the scan.  An index beyond the current list
\* raises IndexError, which _run_cache does not catch.
DScan ==
    /\ pc["cache"] = "d_scan"
    /\ IF d_k > Len(d_order)
       THEN /\ pc' = [pc EXCEPT !["cache"] = "d_wait"]
            /\ d_order' = <<>>
            /\ d_k' = 1
            /\ UNCHANGED d_v
       ELSE IF d_order[d_k] >= Len(volumes)
       THEN /\ pc' = [pc EXCEPT !["cache"] = "dead"]
            /\ d_order' = <<>>
            /\ d_k' = 1
            /\ UNCHANGED d_v
       ELSE IF is_loaded(hs, volumes[d_order[d_k] + 1])
       THEN /\ d_k' = d_k + 1
            /\ UNCHANGED <<pc, d_order, d_v>>
       ELSE /\ d_v' = volumes[d_order[d_k] + 1]
            /\ pc' = [pc EXCEPT !["cache"] = "d_acq"]
            /\ d_order' = <<>>
            /\ d_k' = 1
    /\ UNCHANGED <<hs, tlVars, memory_target, load_lock, clock, sfpVars,
                   getVars, u_v, d_p, d_t, player_alive, xVars>>

\* Line 483: "with self.load_lock".
DAcquire ==
    /\ pc["cache"] = "d_acq"
    /\ load_lock = Free
    /\ load_lock' = "cache"
    /\ pc' = [pc EXCEPT !["cache"] = "d_body"]
    /\ UNCHANGED <<hs, tlVars, memory_target, clock, sfpVars, getVars, u_v,
                   dVars, player_alive, xVars>>

\* Variant of DBody that neither loads the volume nor adds its cost.
DBodySkips ==
    /\ pc["cache"] = "d_body"
    /\ load_lock' = Free
    /\ d_v' = 0
    /\ pc' = [pc EXCEPT !["cache"] = "d_wait"]
    /\ UNCHANGED <<hs, memory_used, volumes, index, indices_by_cache_priority,
                   available, memory_target, clock, sfpVars, getVars, u_v, d_p,
                   d_order, d_k, d_t, player_alive, xVars>>

\* Variant of DBody that goes on to the next iteration with the lock held.
DBodyKeepsLock ==
    /\ pc["cache"] = "d_body"
    /\ hs' = Collect(load(hs, d_v), LiveAfter("cache", TRUE))
    /\ memory_used' = memory_used + estimate_memory(hs, d_v)
    /\ d_v' = 0
    /\ pc' = [pc EXCEPT !["cache"] = "d_wait"]
    /\ UNCHANGED <<volumes, index, indices_by_cache_priority, available,
                   memory_target, load_lock, clock, sfpVars, getVars, u_v, d_p,
                   d_order, d_k, d_t, player_alive, xVars>>

\* Lines 484-488: load, tally, release, break; what v.load() returns is
\* dropped.
DBody ==
    /\ pc["cache"] = "d_body"
    /\ hs' = Collect(load(hs, d_v), LiveAfter("cache", TRUE))
    /\ memory_used' = memory_used + estimate_memory(hs, d_v)
    /\ load_lock' = Free
    /\ d_v' = 0
    /\ pc' = [pc EXCEPT !["cache"] = "d_wait"]
    /\ UNCHANGED <<volumes, index, indices_by_cache_priority, available,
                   memory_target, clock, sfpVars, getVars, u_v, d_p, d_order,
                   d_k, d_t, player_alive, xVars>>

\* ---- VolumeImage: load, unload, estimate_memory ------------------------------
MaxCalls == 4        \* load() / unload() calls made on the VolumeImage of SpecHandle

\* VolumeImage after __init__ and a successful read_header: the file format,
\* dtype.itemsize and prod(dims) of the header, no payload.
NewVolumeImage(fmt, itemsize, voxels) ==
    [file_format |-> fmt, itemsize |-> itemsize, voxels |-> voxels,
     image |-> [kind |-> "none", itemsize |-> 0, id |-> 0], installs |-> 0]

\* What a load finds on disk: a payload matching the header, no readable
\* payload, or a payload of another size or of another data type.
DiskStates == {"ok", "unreadable", "size", "dtype"}

\* "self.image = ...": a new array becomes the payload.
Install(v, kind, itemsize) ==
    [v EXCEPT !.image = [kind |-> kind, itemsize |-> itemsize,
                         id |-> v.installs + 1],
              !.installs = v.installs + 1]

\* VolumeImage.is_loaded of the single object.
vi_is_loaded(v) == v.image.kind # "none"

\* Variant of vi_estimate_memory that measures the payload when there is one.
EstimateFromImage(v) ==
    IF vi_is_loaded(v) THEN v.image.itemsize * v.voxels
    ELSE v.itemsize * v.voxels

\* VolumeImage.estimate_memory: dtype.itemsize * prod(dims) of the header.
vi_estimate_memory(v) == v.itemsize * v.voxels

\* Variant of fail_load that installs no placeholder.
FailLoadNoImage(v) == v

\* VolumeImage._fail_load: np.zeros(self.dims, np.uint8) becomes the payload;
\* the FileError it returns is left to the caller.
fail_load(v) == Install(v, "zeros", 1)

\* VolumeImage.load_nrrd: a failed read and a changed file return the error
\* of _fail_load.
load_nrrd(v, disk) ==
    IF disk = "unreadable" THEN [vi |-> fail_load(v), ret |-> "error"]
    ELSE IF disk = "ok" THEN [vi |-> Install(v, "data", v.itemsize), ret |-> "ok"]
    ELSE [vi |-> fail_load(Install(v, "data", v.itemsize)), ret |-> "error"]

\* The payload tifffile.imread returns for a file in state disk.
TiffRead(v, disk) ==
    Install(v, "data", IF disk = "dtype" THEN 3 - v.itemsize ELSE v.itemsize)

\* VolumeImage.load_tiff, lines 418-421: each failed comparison calls
\* _fail_load and goes on.
TiffCompare(v, disk) ==
    LET a == IF disk = "size" THEN fail_load(v) ELSE v
    IN IF a.image.itemsize # a.itemsize THEN fail_load(a) ELSE a

\* VolumeImage.load_tiff: a failed read returns the error of _fail_load;
\* after the comparisons the method ends with "return None".
load_tiff(v, disk) ==
    IF disk = "unreadable" THEN [vi |-> fail_load(v), ret |-> "error"]
    ELSE [vi |-> TiffCompare(TiffRead(v, disk), disk), ret |-> "ok"]

\* VolumeImage.load under the object's lock.
vi_load(v, disk) ==
    IF vi_is_loaded(v) THEN [vi |-> v, ret |-> "ok"]
    ELSE IF v.file_format = "NRRD" THEN load_nrrd(v, disk)
    ELSE IF v.file_format = "TIFF" THEN load_tiff(v, disk)
    ELSE [vi |-> fail_load(v), ret |-> "error"]

\* VolumeImage.unload under the object's lock.
vi_unload(v) == [v EXCEPT !.image = [kind |-> "none", itemsize |-> 0, id |-> 0]]

\* What a call returned and what it left behind.
LogEntry(op, disk, ret, v) ==
    [op |-> op, disk |-> disk, ret |-> ret, image |-> v.image,
     installs |-> v.installs, est |-> vi_estimate_memory(v)]

\* A thread calls load() while the file is in state disk.
ViLoad(disk) ==
    /\ Len(vi_log) < MaxCalls
    /\ LET r == vi_load(vi, disk)
       IN /\ vi' = r.vi
          /\ vi_log' = Append(vi_log, LogEntry("load", disk, r.ret, r.vi))
    /\ UNCHANGED <<coreVars, volumes, index, indices_by_cache_priority,
                   p_pc, p_index, navVars, yVars>>

\* A thread calls unload().
ViUnload ==
    /\ Len(vi_log) < MaxCalls
    /\ vi' = vi_unload(vi)
    /\ vi_log' = Append(vi_log, LogEntry("unload", "ok", "none", vi_unload(vi)))
    /\ UNCHANGED <<coreVars, volumes, index, indices_by_cache_priority,
                   p_pc, p_index, navVars, yVars>>

\* ---- specifications --------------------------------------------------------
\* Timeline.__init__ and VolumeImage.__init__: nothing loaded, no volumes.
InitTimeline ==
    /\ hs = <<>>
    /\ volumes = <<>>
    /\ index = 0
    /\ indices_by_cache_priority = <<>>
    /\ memory_used = 0
    /\ memory_target = 0
    /\ available = FALSE
    /\ load_lock = Free
    /\ clock = 0
    /\ pc = [t \in Threads |-> IF t = "cache" THEN "off" ELSE "idle"]
    /\ sfp_src = <<>>
    /\ sfp_new = <<>>
    /\ sfp_errs = <<>>
    /\ sfp_old = <<>>
    /\ sfp_dropped = {}
    /\ sfp_loads = FALSE
    /\ sfp_count = 0
    /\ g_index = [t \in {"ui", "upd"} |-> 0]
    /\ g_vol = [t \in {"ui", "upd"} |-> 0]
    /\ u_v = 0
    /\ d_p = 1
    /\ d_order = <<>>
    /\ d_k = 1
    /\ d_v = 0
    /\ d_t = "none"
    /\ player_alive = FALSE
    /\ evicted = <<>>
    /\ p_pc = "idle"
    /\ p_index = 0
    /\ nav_dir = "none"
    /\ nav_i = 0
    /\ extra_daemons = 0
    /\ hl = NoHeaderLoop
    /\ lk = NoLocks
    /\ vu = NewVolumeUpdater

Init ==
    /\ InitTimeline
    /\ vi = NewVolumeImage("NRRD", 1, 1)
    /\ vi_log = <<>>

\* The concurrent specification opens lists of the first NSpecFiles files.
NSpecFiles == 3
SpecPathLists == PathLists(NSpecFiles, MaxSources)

SetFilePaths ==
    \/ \E paths \in SpecPathLists : \E cancel \in 0..Len(paths) :
          SfpRead(paths, cancel)
    \/ SfpReplace
    \/ SfpSort

Seek ==
    \/ \E i \in 0..(MaxSources - 1) : SeekAssign(i)
    \/ SeekSort

Get ==
    \/ \E i \in 0..(MaxSources - 1) : GetBegin("upd", i)
    \/ LvAcquire("upd")
    \/ LvBody("upd")
    \/ GetReturn("upd")
    \/ VtkImage("upd", MaxClock)

UnloadVolume ==
    \/ \E i \in 0..(MaxSources - 1) : UnloadAcquire(i)
    \/ UnloadBody

RunCache ==
    \/ DWait
    \/ DJoinReturn
    \/ DCheck
    \/ DScan
    \/ DAcquire
    \/ DBody

Next ==
    \/ SetFilePaths
    \/ Seek
    \/ Get
    \/ UnloadVolume
    \/ \E m \in {0, MaxTarget} : SetMemoryTarget(m)
    \/ StartCaching
    \/ RunCache

Spec == Init /\ [][Next]_vars

\* ---- single-threaded use of the Timeline ----------------------------------
\* One caller opens lists of any of the files, seeks, gets volumes and obtains
\* their images, one call after the other; the daemon is not started and
\* memory_target keeps the value given to Timeline.__init__.
NSeqFiles == 5
SeqPathLists == PathLists(NSeqFiles, MaxSeqSources)

InitSeq ==
    /\ hs = <<>>
    /\ volumes = <<>>
    /\ index = 0
    /\ indices_by_cache_priority = <<>>
    /\ memory_used = 0
    /\ memory_target \in 0..MaxSeqTarget
    /\ available = FALSE
    /\ load_lock = Free
    /\ clock = 0
    /\ pc = [t \in Threads |-> IF t = "cache" THEN "off" ELSE "idle"]
    /\ sfp_src = <<>>
    /\ sfp_new = <<>>
    /\ sfp_errs = <<>>
    /\ sfp_old = <<>>
    /\ sfp_dropped = {}
    /\ sfp_loads = FALSE
    /\ sfp_count = 0
    /\ g_index = [t \in {"ui", "upd"} |-> 0]
    /\ g_vol = [t \in {"ui", "upd"} |-> 0]
    /\ u_v = 0
    /\ d_p = 1
    /\ d_order = <<>>
    /\ d_k = 1
    /\ d_v = 0
    /\ d_t = "none"
    /\ player_alive = FALSE
    /\ evicted = <<>>
    /\ p_pc = "idle"
    /\ p_index = 0
    /\ nav_dir = "none"
    /\ nav_i = 0
    /\ vi = NewVolumeImage("NRRD", 1, 1)
    /\ vi_log = <<>>
    /\ extra_daemons = 0
    /\ hl = NoHeaderLoop
    /\ lk = NoLocks
    /\ vu = NewVolumeUpdater

SeqSetFilePaths ==
    \/ \E paths \in SeqPathLists : \E cancel \in 0..Len(paths) :
          SfpRead(paths, cancel)
    \/ SfpReplace
    \/ SfpSort

SeqSeek ==
    \/ \E i \in 0..(MaxSeqSources - 1) : SeekAssign(i)
    \/ SeekSort

SeqGet ==
    \/ \E i \in 0..(MaxSeqSources - 1) : GetBegin("ui", i)
    \/ LvAcquire("ui")
    \/ LvBody("ui")
    \/ GetReturn("ui")
    \/ VtkImage("ui", MaxSeqClock)
    \/ GetDone("ui")

NextSeq ==
    \/ SeqSetFilePaths
    \/ SeqSeek
    \/ SeqGet

SpecSeq == InitSeq /\ [][NextSeq]_vars

\* ---- the daemon and the priority threads -----------------------------------
\* One list is opened; the auto player and the volume updater start and end
\* their threads while the daemon runs.
ThrSetFilePaths ==
    \/ \E paths \in SpecPathLists : \E cancel \in 0..Len(paths) :
          (sfp_count = 0 /\ SfpRead(paths, cancel))
    \/ SfpReplace
    \/ SfpSort

NextThreaders ==
    \/ ThrSetFilePaths
    \/ Get
    \/ \E m \in {0, MaxTarget} : SetMemoryTarget(m)
    \/ StartCaching
    \/ RunCache
    \/ PlayerStart
    \/ PlayerStop

SpecThreaders == Init /\ [][NextThreaders]_vars

\* ---- TimelineSlider.add on the AutoPlayer thread ----------------------------
\* timelineslider.py 193-232: add() computes the next index from the timeline
\* as it is now and hands it to set_index.
PSeekChoose(i) ==
    /\ player_alive
    /\ p_pc = "idle"
    /\ available
    /\ i \in 0..(Len(volumes) - 1)
    /\ p_index' = i
    /\ p_pc' = "chosen"
    /\ UNCHANGED <<coreVars, volumes, index, indices_by_cache_priority,
                   navVars, viVars, yVars>>

\* timelineslider.py 182 and Timeline.seek up to line 406 of
\* _make_cache_priorities.
PSeekAssign ==
    /\ p_pc = "chosen"
    /\ index' = p_index
    /\ indices_by_cache_priority' = RangeList(Len(volumes))
    /\ p_pc' = "seek_sort"
    /\ UNCHANGED <<coreVars, volumes, p_index, navVars, viVars, yVars>>

\* Line 407 with the local copy of the index taken at line 392.
PSeekSort ==
    /\ p_pc = "seek_sort"
    /\ indices_by_cache_priority' =
           SortPrio(indices_by_cache_priority, p_index, Len(volumes))
    /\ p_pc' = "idle"
    /\ p_index' = 0
    /\ UNCHANGED <<coreVars, volumes, index, navVars, viVars, yVars>>

PlayerSeek ==
    \/ \E i \in 0..(MaxSources - 1) : PSeekChoose(i)
    \/ PSeekAssign
    \/ PSeekSort

\* The UI thread opens lists and seeks while the AutoPlayer thread steps the
\* slider.
NextPlayer ==
    \/ SetFilePaths
    \/ Seek
    \/ PlayerStart
    \/ PlayerStop
    \/ PlayerSeek

SpecPlayer == Init /\ [][NextPlayer]_vars

\* ---- seeking on longer timelines --------------------------------------------
MaxPrioN == 6        \* longest timeline of SpecPrio
MaxPrioClock == 1    \* time.time() ranges over 0..MaxPrioClock (SpecPrio)

\* The state set_file_paths leaves when it has read n files of one group, of
\* cost 1 each: handles 1..n in time order, nothing loaded, cursor at 0.
InitPrio ==
    \E n \in 1..MaxPrioN :
        /\ hs = [v \in 1..n |->
                    NewHandle(MakeLabels(
                        [k \in 1..n |->
                            [ok |-> TRUE, grp |-> 0, tim |-> k - 1, n_times |-> n,
                             cost |-> 1, payload |-> "ok", period |-> 1]])[v])]
        /\ volumes = [k \in 1..n |-> k]
        /\ index = 0
        /\ indices_by_cache_priority = SortPrio(RangeList(n), 0, n)
        /\ memory_used = 0
        /\ memory_target \in {1, n}
        /\ available = TRUE
        /\ load_lock = Free
        /\ clock = 0
        /\ pc = [t \in Threads |-> IF t = "cache" THEN "off" ELSE "idle"]
        /\ sfp_src = <<>>
        /\ sfp_new = <<>>
        /\ sfp_errs = <<>>
        /\ sfp_old = <<>>
        /\ sfp_dropped = {}
        /\ sfp_loads = FALSE
        /\ sfp_count = 1
        /\ g_index = [t \in {"ui", "upd"} |-> 0]
        /\ g_vol = [t \in {"ui", "upd"} |-> 0]
        /\ u_v = 0
        /\ d_p = 1
        /\ d_order = <<>>
        /\ d_k = 1
        /\ d_v = 0
        /\ d_t = "none"
        /\ player_alive = FALSE
        /\ evicted = <<>>
        /\ p_pc = "idle"
        /\ p_index = 0
        /\ nav_dir = "none"
        /\ nav_i = 0
        /\ vi = NewVolumeImage("NRRD", 1, 1)
        /\ vi_log = <<>>
        /\ extra_daemons = 0
        /\ hl = NoHeaderLoop
        /\ lk = NoLocks
        /\ vu = NewVolumeUpdater

PrioSeek ==
    \/ \E i \in 0..(MaxPrioN - 1) : SeekAssign(i)
    \/ SeekSort

PrioGet ==
    \/ \E i \in 0..(MaxPrioN - 1) : GetBegin("ui", i)
    \/ LvAcquire("ui")
    \/ LvBody("ui")
    \/ GetReturn("ui")
    \/ VtkImage("ui", MaxPrioClock)
    \/ GetDone("ui")

NextPrio ==
    \/ PrioSeek
    \/ PrioGet

SpecPrio == InitPrio /\ [][NextPrio]_vars

\* ---- group navigation -------------------------------------------------------
MaxNavSources == 4   \* longest file list of SpecNav

\* VolumeImage.read_nrrd_header on the custom fields "group index", "time
\* index" and "n times": a negative group or time index and a number of
\* timepoints below 1 are errors; nothing else is compared.
read_header(hdr) ==
    IF hdr.grp < 0 \/ hdr.tim < 0 \/ hdr.n_times < 1
    THEN BadSource
    ELSE [ok |-> TRUE, grp |-> hdr.grp, tim |-> hdr.tim,
          n_times |-> hdr.n_times, cost |-> 1, payload |-> "ok", period |-> 1]

\* The headers on disk for SpecNav.
Headers ==
    <<[grp |-> 0, tim |-> 9, n_times |-> 10],
      [grp |-> 0, tim |-> 5, n_times |-> 10],
      [grp |-> 1, tim |-> 0, n_times |-> 10],
      [grp |-> 1, tim |-> 4, n_times |-> 10],
      [grp |-> 1, tim |-> 8, n_times |-> 10],
      [grp |-> 1, tim |-> 3, n_times |-> 2],
      [grp |-> 2, tim |-> 1, n_times |-> 3],
      [grp |-> 0, tim |-> 0 - 1, n_times |-> 10],
      [grp |-> 1, tim |-> 0, n_times |-> 0],
      [grp |-> 2, tim |-> 2, n_times |-> 10]>>

\* The lists of at most MaxNavSources distinct files, as read_header reads
\* them.
NavPathLists ==
    {[k \in DOMAIN p |-> read_header(Headers[p[k]])] :
        p \in {q \in UNION {[1..k -> 1..Len(Headers)] : k \in 1..MaxNavSources} :
                  \A a, b \in DOMAIN q : a # b => q[a] # q[b]}}

\* Variant of PhaseDiff without the wrap-around at 0.5.
PhaseDiffLinear(a, b) ==
    LET n == a.tim * b.n_times - b.tim * a.n_times
        d == IF n < 0 THEN 0 - n ELSE n
    IN [num |-> d, den |-> a.n_times * b.n_times]

\* "diff = abs(phase - self.volumes[i].phase()); if diff > 0.5: diff = 1 -
\* diff", with phase() = time_index / n_times kept as an exact fraction.
PhaseDiff(a, b) ==
    LET n == a.tim * b.n_times - b.tim * a.n_times
        den == a.n_times * b.n_times
        d == IF n < 0 THEN 0 - n ELSE n
    IN IF 2 * d > den THEN [num |-> den - d, den |-> den]
       ELSE [num |-> d, den |-> den]

\* Variant of DiffLeq for a strict comparison.
DiffLt(x, y) == x.num * y.den < y.num * x.den

\* "diff <= smallest_diff"
DiffLeq(x, y) == x.num * y.den <= y.num * x.den

\* self.volumes[i].group_index for the 0-based position i.
GroupAt(h, vols, i) == h[vols[i + 1]].grp

\* get_next_group_index, first loop: leave the current group.
RECURSIVE SkipNext(_, _, _, _)
SkipNext(h, vols, i, g) ==
    IF i < Len(vols) - 1 /\ g = GroupAt(h, vols, i)
    THEN SkipNext(h, vols, i + 1, g)
    ELSE i

\* get_next_group_index, second loop: the best phase match of group g.
RECURSIVE ScanNext(_, _, _, _, _, _, _)
ScanNext(h, vols, i, g, from, smallest, best) ==
    IF i <= Len(vols) - 1 /\ g = GroupAt(h, vols, i)
    THEN LET d == PhaseDiff(h[from], h[vols[i + 1]])
         IN IF DiffLeq(d, smallest)
            THEN ScanNext(h, vols, i + 1, g, from, d, i)
            ELSE ScanNext(h, vols, i + 1, g, from, smallest, best)
    ELSE best

get_next_group_index(h, vols, idx) ==
    LET i == SkipNext(h, vols, idx, GroupAt(h, vols, idx))
    IN ScanNext(h, vols, i, GroupAt(h, vols, i), vols[idx + 1],
                [num |-> 1, den |-> 1], i)

\* Variant of SkipPrev that stays at the cursor.
SkipPrevStays(h, vols, i, g) == i

\* get_prev_group_index, first loop.
RECURSIVE SkipPrev(_, _, _, _)
SkipPrev(h, vols, i, g) ==
    IF i > 0 /\ g = GroupAt(h, vols, i)
    THEN SkipPrev(h, vols, i - 1, g)
    ELSE i

\* get_prev_group_index, second loop.
RECURSIVE ScanPrev(_, _, _, _, _, _, _)
ScanPrev(h, vols, i, g, from, smallest, best) ==
    IF i >= 0 /\ g = GroupAt(h, vols, i)
    THEN LET d == PhaseDiff(h[from], h[vols[i + 1]])
         IN IF DiffLeq(d, smallest)
            THEN ScanPrev(h, vols, i - 1, g, from, d, i)
            ELSE ScanPrev(h, vols, i - 1, g, from, smallest, best)
    ELSE best

get_prev_group_index(h, vols, idx) ==
    LET i == SkipPrev(h, vols, idx, GroupAt(h, vols, idx))
    IN ScanPrev(h, vols, i, GroupAt(h, vols, i), vols[idx + 1],
                [num |-> 1, den |-> 1], i)

\* TimelineSlider._on_next_group / _on_prev_group: the timeline is asked for
\* the index to go to.
NavCompute(dir) ==
    /\ pc["ui"] = "idle"
    /\ available
    /\ nav_dir' = dir
    /\ nav_i' = IF dir = "next" THEN get_next_group_index(hs, volumes, index)
                ELSE get_prev_group_index(hs, volumes, index)
    /\ pc' = [pc EXCEPT !["ui"] = "nav_set"]
    /\ UNCHANGED <<hs, tlVars, memory_target, load_lock, clock, sfpVars,
                   getVars, u_v, dVars, player_alive, p_pc, p_index, viVars, yVars>>

\* set_index with that index: Timeline.seek up to line 406.
NavSetIndex ==
    /\ pc["ui"] = "nav_set"
    /\ index' = nav_i
    /\ indices_by_cache_priority' = RangeList(Len(volumes))
    /\ nav_dir' = "none"
    /\ nav_i' = 0
    /\ pc' = [pc EXCEPT !["ui"] = "seek_sort"]
    /\ UNCHANGED <<hs, volumes, memory_used, available, memory_target,
                   load_lock, clock, sfpVars, getVars, u_v, dVars,
                   player_alive, p_pc, p_index, viVars, yVars>>

NavSetFilePaths ==
    \/ /\ sfp_count = 0
       /\ \E paths \in NavPathLists : SfpRead(paths, 0)
    \/ SfpReplace
    \/ SfpSort

NavSeek ==
    \/ \E i \in 0..(MaxNavSources - 1) : SeekAssign(i)
    \/ SeekSort

Navigate ==
    \/ \E dir \in {"next", "prev"} : NavCompute(dir)
    \/ NavSetIndex

NextNav ==
    \/ NavSetFilePaths
    \/ NavSeek
    \/ Navigate

SpecNav == Init /\ [][NextNav]_vars

\* ---- one VolumeImage, loaded and unloaded --------------------------------------
InitHandle ==
    /\ InitTimeline
    /\ \E fmt \in {"NRRD", "TIFF"} : \E itemsize \in {1, 2} : \E voxels \in {1, 2} :
          vi = NewVolumeImage(fmt, itemsize, voxels)
    /\ vi_log = <<>>

NextHandle ==
    \/ \E disk \in DiskStates : ViLoad(disk)
    \/ ViUnload

SpecHandle == InitHandle /\ [][NextHandle]_vars

\* ---- start_caching called more than once -------------------------------------
MaxStarts == 2       \* further start_caching calls made while a daemon runs

\* A further call of Timeline.start_caching: lines 440-441 create and start
\* another Thread on _run_cache, whatever cache_thread holds.
StartCachingAgain ==
    /\ pc["ui"] = "idle"
    /\ pc["cache"] # "off"
    /\ extra_daemons < MaxStarts
    /\ extra_daemons' = extra_daemons + 1
    /\ UNCHANGED <<coreVars, volumes, index, indices_by_cache_priority,
                   p_pc, p_index, navVars, viVars, hl, zVars>>

\* The _run_cache threads that are running: the one whose steps are followed
\* and those started by further calls.  Without a shorter list replacing
\* volumes none of them can end.
RunningDaemons ==
    (IF pc["cache"] \in {"off", "dead"} THEN 0 ELSE 1) + extra_daemons

\* One list is opened, the updater gets volumes, and start_caching is called
\* any number of times.
NextStart ==
    \/ ThrSetFilePaths
    \/ Get
    \/ \E m \in {0, MaxTarget} : SetMemoryTarget(m)
    \/ StartCaching
    \/ StartCachingAgain
    \/ RunCache

SpecStart == Init /\ [][NextStart]_vars

\* ---- the daemon scanning while the cursor moves --------------------------------
\* On a timeline of up to MaxPrioN handles the UI thread seeks while the
\* daemon runs and the auto player starts and stops.
NextScan ==
    \/ PrioSeek
    \/ StartCaching
    \/ RunCache
    \/ PlayerStart
    \/ PlayerStop

SpecScan == InitPrio /\ [][NextScan]_vars

\* ---- files whose payload cannot be read ------------------------------------------
\* The lists of at most MaxSources distinct files among one readable file and
\* the one whose header is readable and whose payload is not.
ErrFiles == {2, 7}
ErrPathLists ==
    {[k \in DOMAIN p |-> Files[p[k]]] :
        p \in {q \in UNION {[1..k -> ErrFiles] : k \in 1..MaxSources} :
                  \A a, b \in DOMAIN q : a # b => q[a] # q[b]}}

ErrSetFilePaths ==
    \/ \E paths \in ErrPathLists : SfpRead(paths, 0)
    \/ SfpReplace
    \/ SfpSort

\* The updater gets volumes, the UI thread opens lists, unloads and changes
\* the limit, and the daemon preloads.
NextErr ==
    \/ ErrSetFilePaths
    \/ Get
    \/ UnloadVolume
    \/ \E m \in {0, MaxTarget} : SetMemoryTarget(m)
    \/ StartCaching
    \/ RunCache

SpecErr == Init /\ [][NextErr]_vars

\* ---- the header loop of set_file_paths, source by source --------------------------
MaxHlSources == 3    \* longest file list given to the header loop
NHlFiles == 4        \* the loop is given lists of the first NHlFiles files

\* Lists of distinct files, each named by its position in Files.
HlPathLists ==
    {q \in UNION {[1..k -> 1..NHlFiles] : k \in 1..MaxHlSources} :
        \A a, b \in DOMAIN q : a # b => q[a] # q[b]}

\* Everything but the locals of the header loop.
notHlVars ==
    <<coreVars, volumes, index, indices_by_cache_priority, p_pc, p_index,
      navVars, viVars, extra_daemons, zVars>>

\* Lines 133-140: set_file_paths(file_paths, progress_callback) builds one
\* VolumeImage per path.  cancel = k means progress_callback(k) returns True;
\* cancel = 0 means it never does.
HlBegin(paths, cancel) ==
    /\ hl.at = "idle"
    /\ hl' = [NoHeaderLoop EXCEPT !.at = "read", !.paths = paths,
                                  !.cancel = cancel, !.volumes = paths]
    /\ UNCHANGED notHlVars

\* Lines 141-151: v.read_header() for volumes[i]; a failure is noted in
\* file_errors and volume_error_indices.
HlRead ==
    /\ hl.at = "read"
    /\ LET v == hl.volumes[hl.i + 1]
       IN hl' = [hl EXCEPT
                    !.at = "callback",
                    !.reads = Append(@, v),
                    !.file_errors = IF Files[v].ok THEN @ ELSE Append(@, v),
                    !.volume_error_indices =
                        IF Files[v].ok THEN @ ELSE Append(@, hl.i + 1)]
    /\ UNCHANGED notHlVars

\* Variant of HlCallback that ignores what progress_callback returns.
HlCallbackNoBreak ==
    /\ hl.at = "callback"
    /\ hl' = [hl EXCEPT !.calls = Append(@, hl.i + 1),
                        !.i = @ + 1,
                        !.at = IF hl.i + 1 < Len(hl.volumes) THEN "read"
                               ELSE "remove"]
    /\ UNCHANGED notHlVars

\* Lines 154-158: progress_callback(i + 1); when it returns True the list is
\* cut after volumes[i] and the loop is left.
HlCallback ==
    /\ hl.at = "callback"
    /\ IF hl.cancel = hl.i + 1
       THEN hl' = [hl EXCEPT !.calls = Append(@, hl.i + 1),
                             !.volumes = SubSeq(@, 1, hl.i + 1),
                             !.at = "remove"]
       ELSE hl' = [hl EXCEPT !.calls = Append(@, hl.i + 1),
                             !.i = @ + 1,
                             !.at = IF hl.i + 1 < Len(hl.volumes) THEN "read"
                                    ELSE "remove"]
    /\ UNCHANGED notHlVars

\* Lines 161-163: the volumes whose header failed are deleted, last first.
HlRemove ==
    /\ hl.at = "remove"
    /\ hl' = [hl EXCEPT !.volumes = RemoveErrors(@, hl.volume_error_indices),
                        !.at = "done"]
    /\ UNCHANGED notHlVars

\* Line 205: "return file_errors"; the locals are gone.
HlReturn ==
    /\ hl.at = "done"
    /\ hl' = NoHeaderLoop
    /\ UNCHANGED notHlVars

NextIngest ==
    \/ \E paths \in HlPathLists : \E cancel \in 0..Len(paths) :
          HlBegin(paths, cancel)
    \/ HlRead
    \/ HlCallback
    \/ HlRemove
    \/ HlReturn

SpecIngest == Init /\ [][NextIngest]_vars

\* ---- jumping to the first and last volume of the current group -------------------
\* Variant of FirstScan that steps back once at most.
FirstScanOnce(h, vols, i, g) ==
    IF i > 0 /\ g = GroupAt(h, vols, i - 1) THEN i - 1 ELSE i

\* get_first_group_index, the loop of lines 357-358.
RECURSIVE FirstScan(_, _, _, _)
FirstScan(h, vols, i, g) ==
    IF i > 0 /\ g = GroupAt(h, vols, i - 1)
    THEN FirstScan(h, vols, i - 1, g)
    ELSE i

get_first_group_index(h, vols, idx) ==
    FirstScan(h, vols, idx, GroupAt(h, vols, idx))

\* get_last_group_index, the loop of lines 374-375.
RECURSIVE LastScan(_, _, _, _)
LastScan(h, vols, i, g) ==
    IF i < Len(vols) - 1 /\ g = GroupAt(h, vols, i + 1)
    THEN LastScan(h, vols, i + 1, g)
    ELSE i

get_last_group_index(h, vols, idx) ==
    LastScan(h, vols, idx, GroupAt(h, vols, idx))

\* TimelineSlider._goto_group_start / _goto_group_end: the timeline is asked
\* for the index to go to; set_index follows.
GotoGroupEdge(dir) ==
    /\ pc["ui"] = "idle"
    /\ available
    /\ nav_dir' = dir
    /\ nav_i' = IF dir = "first" THEN get_first_group_index(hs, volumes, index)
                ELSE get_last_group_index(hs, volumes, index)
    /\ pc' = [pc EXCEPT !["ui"] = "nav_set"]
    /\ UNCHANGED <<hs, tlVars, memory_target, load_lock, clock, sfpVars,
                   getVars, u_v, dVars, player_alive, p_pc, p_index, viVars, yVars>>

NextEdge ==
    \/ NavSetFilePaths
    \/ NavSeek
    \/ \E dir \in {"first", "last"} : GotoGroupEdge(dir)
    \/ NavSetIndex

SpecEdge == Init /\ [][NextEdge]_vars

\* ---- single-threaded use while the cache limit changes ---------------------------
\* One caller opens lists and gets volumes; between the calls the cache limit
\* is set to any value of 0..MaxSeqTarget.
NextTarget ==
    \/ SeqSetFilePaths
    \/ SeqGet
    \/ \E m \in 0..MaxSeqTarget : SetMemoryTarget(m)

SpecTarget == Init /\ [][NextTarget]_vars

\* ---- get without preload -------------------------------------------------------
\* Variant of GetNoPreload that loads the handle it returns.
GetNoPreloadLoads(t, i) ==
    /\ pc[t] = "idle"
    /\ available
    /\ i \in 0..(Len(volumes) - 1)
    /\ g_index' = [g_index EXCEPT ![t] = i]
    /\ g_vol' = [g_vol EXCEPT ![t] = volumes[i + 1]]
    /\ hs' = load(hs, volumes[i + 1])
    /\ pc' = [pc EXCEPT ![t] = "got"]
    /\ UNCHANGED <<tlVars, memory_target, load_lock, clock, sfpVars,
                   evicted, u_v, dVars, player_alive, xVars>>

\* Timeline.get(index, preload=False), lines 228-235: _load_volume is skipped
\* and self.volumes[index] is returned.
GetNoPreload(t, i) ==
    /\ pc[t] = "idle"
    /\ available
    /\ i \in 0..(Len(volumes) - 1)
    /\ g_index' = [g_index EXCEPT ![t] = i]
    /\ g_vol' = [g_vol EXCEPT ![t] = volumes[i + 1]]
    /\ pc' = [pc EXCEPT ![t] = "got"]
    /\ UNCHANGED <<hs, tlVars, memory_target, load_lock, clock, sfpVars,
                   evicted, u_v, dVars, player_alive, xVars>>

\* One caller opens lists, seeks and gets volumes with and without preload.
NextFrame ==
    \/ SeqSetFilePaths
    \/ SeqSeek
    \/ SeqGet
    \/ \E i \in 0..(MaxSeqSources - 1) : GetNoPreload("ui", i)

SpecFrame == InitSeq /\ [][NextFrame]_vars

\* ---- the order in which the locks are taken ----------------------------------------
\* The locks: "T" is Timeline.load_lock, the others are the load_lock of two
\* VolumeImage objects.
LockHandles == {"H1", "H2"}

\* VolumeImage.load and VolumeImage.unload: "with self.load_lock" around the
\* body.
HandleLocks(v) == <<[op |-> "acq", lock |-> v], [op |-> "rel", lock |-> v]>>

\* "for v in ...: v.unload()"
RECURSIVE UnloadEach(_)
UnloadEach(vs) ==
    IF vs = <<>> THEN <<>> ELSE HandleLocks(Head(vs)) \o UnloadEach(Tail(vs))

\* Timeline._load_volume: the Timeline lock, inside it nothing for a resident
\* volume or an index out of range, otherwise the unload of each evicted
\* volume and the load of the requested one.
LoadVolumeLocks(early, evs, vol) ==
    <<[op |-> "acq", lock |-> "T"]>>
        \o (IF early THEN <<>> ELSE UnloadEach(evs) \o HandleLocks(vol))
        \o <<[op |-> "rel", lock |-> "T"]>>

\* Variant of UnloadVolumeLocks that enters the handle's lock first.
UnloadVolumeHandleFirst(v) ==
    <<[op |-> "acq", lock |-> v], [op |-> "acq", lock |-> "T"],
      [op |-> "rel", lock |-> "T"], [op |-> "rel", lock |-> v]>>

\* Timeline.unload_volume: v.unload() inside the Timeline lock.
UnloadVolumeLocks(v) ==
    <<[op |-> "acq", lock |-> "T"]>> \o HandleLocks(v)
        \o <<[op |-> "rel", lock |-> "T"]>>

\* Timeline.set_file_paths, lines 181-203: inside the Timeline lock the old
\* volumes are unloaded when a header was read; seek takes no lock.
SetFilePathsLocks(old, any) ==
    <<[op |-> "acq", lock |-> "T"]>>
        \o (IF any THEN UnloadEach(old) ELSE <<>>)
        \o <<[op |-> "rel", lock |-> "T"]>>

\* Timeline._run_cache, lines 483-485.
RunCacheLocks(v) ==
    <<[op |-> "acq", lock |-> "T"]>> \o HandleLocks(v)
        \o <<[op |-> "rel", lock |-> "T"]>>

\* The lock steps of the calls each thread makes.
LockPrograms(t) ==
    LET HandleSeqs ==
            {q \in UNION {[1..k -> LockHandles] :
                              k \in 0..Cardinality(LockHandles)} :
                \A a, b \in DOMAIN q : a # b => q[a] # q[b]}
    IN
    IF t = "cache" THEN {RunCacheLocks(v) : v \in LockHandles}
    ELSE {HandleLocks(v) : v \in LockHandles}
         \cup {LoadVolumeLocks(TRUE, <<>>, "H1")}
         \cup UNION {{LoadVolumeLocks(FALSE, evs, v) :
                         evs \in {q \in HandleSeqs : \A k \in DOMAIN q : q[k] # v}} :
                     v \in LockHandles}
         \cup (IF t = "ui"
               THEN {UnloadVolumeLocks(v) : v \in LockHandles}
                    \cup {SetFilePathsLocks(old, any) :
                             old \in HandleSeqs, any \in BOOLEAN}
               ELSE {})

notLkVars ==
    <<coreVars, volumes, index, indices_by_cache_priority, p_pc, p_index,
      navVars, viVars, extra_daemons, hl, vu>>

\* Thread t enters a call.
LkBegin(t, prog) ==
    /\ lk[t].todo = <<>>
    /\ lk' = [lk EXCEPT ![t].todo = prog]
    /\ UNCHANGED notLkVars

\* The threads that hold lock l.
Holders(l) == {t \in Threads : l \in lk[t].held}

\* Thread t takes or releases its next lock; threading.Lock is not reentrant,
\* so acquire waits while any thread, the caller included, holds the lock.
LkStep(t) ==
    /\ lk[t].todo # <<>>
    /\ LET o == Head(lk[t].todo)
       IN IF o.op = "acq"
          THEN /\ Holders(o.lock) = {}
               /\ lk' = [lk EXCEPT ![t].held = @ \cup {o.lock},
                                   ![t].todo = Tail(@)]
          ELSE lk' = [lk EXCEPT ![t].held = @ \ {o.lock},
                                ![t].todo = Tail(@)]
    /\ UNCHANGED notLkVars

NextLocks ==
    \/ \E t \in Threads : \E prog \in LockPrograms(t) : LkBegin(t, prog)
    \/ \E t \in Threads : LkStep(t)

SpecLocks == Init /\ [][NextLocks]_vars

\* ---- the daemon left to itself ----------------------------------------------------
\* The scheduler lets the daemon thread run: an iteration of _run_cache that
\* can go on does go on.
SpecQuiet == SpecScan /\ WF_vars(RunCache)

\* ---- VolumeUpdater ----------------------------------------------------------------
MaxQueue == 3        \* queue() calls made on the VolumeUpdater
MaxVuN == 2          \* longest timeline of SpecUpdater

notVuVars ==
    <<coreVars, volumes, index, indices_by_cache_priority, p_pc, p_index,
      navVars, viVars, extra_daemons, hl, lk>>

\* Thread.is_alive() of the k-th thread started: true from start() until
\* _run_thread has returned and the thread has ended.
is_alive(k) == vu.threads[k] # "dead"

\* queue, line 55: "with self.load_lock".
VuQueueAcquire ==
    /\ vu.q = "idle"
    /\ vu.queued < MaxQueue
    /\ vu.load_lock = Free
    /\ vu' = [vu EXCEPT !.load_lock = "ui", !.q = "in"]
    /\ UNCHANGED notVuVars

\* Variant of VuQueueBody that starts a thread without asking is_alive().
VuQueueBodyAlwaysStarts ==
    /\ vu.q = "in"
    /\ vu' = [vu EXCEPT !.must_update = TRUE,
                        !.threads = Append(@, "start"),
                        !.thread = Len(vu.threads) + 1,
                        !.queued = @ + 1,
                        !.load_lock = Free,
                        !.q = "idle"]
    /\ UNCHANGED notVuVars

\* queue, lines 56-68: the flag is raised, a thread is started when
\* self.thread is None or not alive, and the lock is released.
VuQueueBody ==
    /\ vu.q = "in"
    /\ LET running == vu.thread # 0 /\ is_alive(vu.thread)
       IN vu' = [vu EXCEPT !.must_update = TRUE,
                           !.threads = IF running THEN @ ELSE Append(@, "start"),
                           !.thread = IF running THEN @ ELSE Len(vu.threads) + 1,
                           !.queued = @ + 1,
                           !.load_lock = Free,
                           !.q = "idle"]
    /\ UNCHANGED notVuVars

\* _run_thread, lines 78 and 101: "self.load_lock.acquire()", on entry and
\* after an update.
VuAcquire(k) ==
    /\ \/ vu.threads[k] = "start"
       \/ vu.threads[k] = "get" /\ pc["upd"] = "idle"
    /\ vu.load_lock = Free
    /\ vu' = [vu EXCEPT !.load_lock = "upd", !.threads[k] = "test"]
    /\ UNCHANGED notVuVars

\* Lines 79-81: "while self.must_update"; the flag is lowered and the lock
\* released for the update, or the loop is left with the lock held.
VuTest(k) ==
    /\ vu.threads[k] = "test"
    /\ vu' = IF vu.must_update
             THEN [vu EXCEPT !.must_update = FALSE, !.load_lock = Free,
                             !.threads[k] = "work"]
             ELSE [vu EXCEPT !.threads[k] = "finish"]
    /\ UNCHANGED notVuVars

\* Lines 85-95: nothing when the timeline is not available; otherwise
\* timeline.index is read, get(index, preload=False) hands the handle to
\* attach_mask without a change of the timeline, and get(index,
\* preload=True) is entered.
VuWork(k) ==
    /\ vu.threads[k] = "work"
    /\ pc["upd"] = "idle"
    /\ IF available /\ index < Len(volumes)
       THEN /\ g_index' = [g_index EXCEPT !["upd"] = index]
            /\ pc' = [pc EXCEPT !["upd"] = "lv_acq"]
            /\ vu' = [vu EXCEPT !.threads[k] = "get", !.seen = vu.queued]
       ELSE /\ vu' = [vu EXCEPT !.threads[k] = "get"]
            /\ UNCHANGED <<g_index, pc>>
    /\ UNCHANGED <<hs, tlVars, memory_target, load_lock, clock, sfpVars,
                   g_vol, evicted, u_v, dVars, player_alive, p_pc, p_index,
                   navVars, viVars, extra_daemons, hl, lk>>

\* Lines 103-120: attach_volume, vtk_render, and the release of the lock
\* before the method returns.
VuFinish(k) ==
    /\ vu.threads[k] = "finish"
    /\ vu' = [vu EXCEPT !.load_lock = Free, !.threads[k] = "ending"]
    /\ UNCHANGED notVuVars

\* _run_thread has returned and the thread ends.
VuExit(k) ==
    /\ vu.threads[k] = "ending"
    /\ vu' = [vu EXCEPT !.threads[k] = "dead"]
    /\ UNCHANGED notVuVars

VuRunThread ==
    \E k \in 1..MaxQueue :
        /\ k \in DOMAIN vu.threads
        /\ \/ VuAcquire(k)
           \/ VuTest(k)
           \/ VuWork(k)
           \/ VuFinish(k)
           \/ VuExit(k)

\* Lines 92-94: get(index, preload=True) and set_volume_input, in the
\* updater thread.
VuGet ==
    \/ LvAcquire("upd")
    \/ LvBody("upd")
    \/ GetReturn("upd")
    \/ VtkImage("upd", MaxPrioClock)

\* The timeline as set_file_paths leaves it, of at most MaxVuN handles.
InitUpdater == InitPrio /\ Len(volumes) <= MaxVuN

\* The UI thread seeks and queues updates.
NextUpdater ==
    \/ PrioSeek
    \/ VuQueueAcquire
    \/ VuQueueBody
    \/ VuRunThread
    \/ VuGet

SpecUpdater == InitUpdater /\ [][NextUpdater]_vars

\* The scheduler lets the updater thread and a queue() call that holds the
\* lock run.
SpecUpdaterLive ==
    SpecUpdater /\ WF_vars(VuRunThread) /\ WF_vars(VuGet) /\ WF_vars(VuQueueBody)

\* ---- properties -------------------------------------------------------------
TypeOK ==
    /\ load_lock \in Threads \cup {Free}
    /\ available \in BOOLEAN
    /\ Range(volumes) \subseteq DOMAIN hs
    /\ memory_target \in 0..(MaxTarget + MaxSeqTarget + MaxPrioN)

\* C1: whenever no thread holds the load lock, memory_used is the sum of
\* estimate_memory() over the resident handles of volumes.
C1_TallyExact ==
    load_lock = Free => memory_used = SumCost(hs, Resident(hs, volumes))

\* The handle a get call of thread t asked for.
Requested(t) == volumes[g_index[t] + 1]

\* C2: after each get(index, preload=True) of a sequence of calls with a fixed
\* memory_target, the requested handle is resident, and either memory_used is
\* within memory_target or the requested handle alone exceeds memory_target
\* and is the only resident handle.
C2_BudgetRespected ==
    pc["ui"] \in {"lv_ret", "got"} =>
        /\ is_loaded(hs, Requested("ui"))
        /\ \/ memory_used <= memory_target
           \/ /\ estimate_memory(hs, Requested("ui")) > memory_target
              /\ Resident(hs, volumes) = {Requested("ui")}

\* C2 witness: a call was served over budget after every other handle had been
\* evicted.
C2_Witness ==
    /\ pc["ui"] = "lv_ret"
    /\ memory_used > memory_target
    /\ memory_target > 0
    /\ Len(evicted) >= 1
    /\ Resident(hs, volumes) = {Requested("ui")}

\* The handles one _load_volume body unloads.
EvictedBy == {v \in Resident(hs, volumes) : ~hs'[v].loaded}

\* C3: the handles evicted by one _load_volume(index) are the shortest prefix,
\* in ascending last_access_time, of the resident handles other than the
\* requested one whose removal brings memory_used within memory_target (all
\* of them when no prefix suffices); the requested handle is not evicted.
C3_LruPrefix ==
    [][(pc["ui"] = "lv_body" /\ pc'["ui"] = "lv_ret") =>
        LET v == Requested("ui")
            R == Resident(hs, volumes) \ {v}
            E == EvictedBy
            used == memory_used + estimate_memory(hs, v)
        IN IF is_loaded(hs, v)
           THEN E = {} /\ memory_used' = memory_used
           ELSE /\ hs'[v].loaded
                /\ E \subseteq R
                /\ \A e \in E : \A r \in R \ E : hs[e].atime <= hs[r].atime
                /\ memory_used' = used - SumCost(hs, E)
                /\ memory_used' <= memory_target \/ E = R
                /\ E # {} =>
                     \E l \in E :
                        /\ \A e \in E : hs[e].atime <= hs[l].atime
                        /\ used - SumCost(hs, E \ {l}) > memory_target
    ]_vars

\* Position of handle v in volumes.
PosOf(v) == CHOOSE k \in 1..Len(volumes) : volumes[k] = v

\* C3 witness: a load evicted exactly one handle, the least recently accessed
\* one, although another resident handle precedes it in volumes.
C3_Witness ==
    /\ pc["ui"] = "lv_ret"
    /\ Len(evicted) = 1
    /\ \E r \in Resident(hs, volumes) \ {Requested("ui")} :
          /\ PosOf(r) < PosOf(evicted[1])
          /\ hs[r].atime > hs[evicted[1]].atime

\* Thread t took a step.
Acted(t) == pc'[t] # pc[t]

\* C4: every change of a handle's residency, of memory_used and of volumes is
\* made by a thread that holds the load lock.
C4_LockedMutation ==
    [][(\/ \E v \in (DOMAIN hs) \cap (DOMAIN hs') : hs'[v].loaded # hs[v].loaded
        \/ memory_used' # memory_used
        \/ volumes' # volumes)
       => \E t \in Threads : load_lock = t /\ Acted(t)
    ]_vars

\* The handles a daemon step makes resident; a handle of a replaced list is
\* freed as soon as the daemon has loaded it and dropped it.
Loaded ==
    {v \in DOMAIN hs :
        /\ ~hs[v].loaded
        /\ IF v \in DOMAIN hs' THEN hs'[v].loaded
           ELSE pc["cache"] = "d_body" /\ v = d_v}

\* C5: a daemon step unloads nothing, never lowers memory_used, changes no
\* access time and leaves index, the priority order and volumes alone; it
\* makes at most one handle resident and changes memory_used only by adding
\* the cost of the handle it made resident.
C5_DaemonFrame ==
    [][(Acted("cache") \/ d_k' # d_k) =>
        /\ \A v \in (DOMAIN hs) \cap (DOMAIN hs') :
              /\ hs[v].loaded => hs'[v].loaded
              /\ hs'[v].atime = hs[v].atime
        /\ memory_used' >= memory_used
        /\ UNCHANGED <<index, indices_by_cache_priority, volumes>>
        /\ Cardinality(Loaded) <= 1
        /\ IF Loaded = {}
           THEN memory_used' = memory_used
           ELSE \A v \in Loaded :
                   memory_used' = memory_used + estimate_memory(hs, v)
    ]_vars

C7_DaemonRunsForever == pc["cache"] # "dead"

\* C8: when set_file_paths returns from replacing the list and no payload was
\* loaded since the replacement, every handle of the previous list is
\* non-resident, no handle of the new list is resident, memory_used = 0 and
\* index = 0.
C8_ReplaceDiscards ==
    [][(pc["ui"] = "sfp_sort" /\ pc'["ui"] = "idle" /\ ~sfp_loads) =>
        /\ \A v \in Range(sfp_old) : ~hs[v].loaded
        /\ \A v \in Range(volumes') : ~hs'[v].loaded
        /\ memory_used' = 0
        /\ index' = 0
    ]_vars

\* C8 witness: a second call is about to return after its unload loop dropped
\* resident handles of the previous list.
C8_Witness ==
    /\ pc["ui"] = "sfp_sort"
    /\ sfp_count = 2
    /\ sfp_dropped # {}
    /\ ~sfp_loads

\* Positions of the processed sources whose header read failed.
Failed == {k \in 1..Len(sfp_src) : ~sfp_src[k].ok}

\* C9: set_file_paths collects exactly one error for each processed source
\* whose header read failed, and when some source succeeded the timeline
\* holds exactly the successfully read handles: its length is the number of
\* processed sources minus the number of failures.
C9_ErrorsAndLength ==
    /\ pc["ui"] \in {"sfp_body", "sfp_sort"} =>
          /\ Len(sfp_errs) = Cardinality(Failed)
          /\ Range(sfp_errs) = Failed
    /\ pc["ui"] = "sfp_sort" =>
          /\ Len(volumes) = Len(sfp_src) - Len(sfp_errs)
          /\ \A f \in Range(Files) :
                Cardinality({k \in 1..Len(volumes) :
                                /\ f.ok
                                /\ hs[volumes[k]].grp = f.grp
                                /\ hs[volumes[k]].tim = f.tim
                                /\ hs[volumes[k]].cost = f.cost})
                  = Cardinality({k \in 1..Len(sfp_src) : f.ok /\ sfp_src[k] = f})

\* C9 witness: a list with a failing source before a readable one was
\* installed, with as many errors as failures.
C9_Witness ==
    /\ pc["ui"] = "sfp_sort"
    /\ Len(sfp_src) = MaxSeqSources
    /\ Len(sfp_errs) >= 1
    /\ ~sfp_src[1].ok
    /\ Len(volumes) >= 1

\* volumes is in ascending order of (group_index, time_index).
Sorted ==
    \A k \in 1..(Len(volumes) - 1) :
        KeyLeq(hs[volumes[k]], hs[volumes[k + 1]])

\* C10: volumes is always sorted by (group_index, time_index), and only the
\* replacement step of set_file_paths changes it.
C10_VolumesSorted ==
    /\ []Sorted
    /\ [][volumes' # volumes => (pc["ui"] = "sfp_body" /\ pc'["ui"] = "sfp_sort")]_vars

\* C10 witness: a list given out of order was installed.
C10_Witness ==
    /\ pc["ui"] = "sfp_sort"
    /\ Len(sfp_src) = 2
    /\ sfp_errs = <<>>
    /\ ~KeyLeq(sfp_src[1], sfp_src[2])
    /\ Len(volumes) = 2

\* C11: whenever the timeline is available, 0 <= index < len(volumes).
C11_IndexInRange == available => (0 <= index /\ index < Len(volumes))

\* C12: available becomes true only on the return of a set_file_paths call
\* that installed at least one handle, every such return leaves it true, and
\* once true it stays true, also through a call in which every source fails.
C12_AvailableMonotone ==
    [][/\ available => available'
       /\ (~available /\ available') =>
             (pc["ui"] = "sfp_sort" /\ pc'["ui"] = "idle" /\ Len(volumes) >= 1)
       /\ (pc["ui"] = "sfp_sort" /\ pc'["ui"] = "idle") => available'
       /\ (~available /\ pc["ui"] = "sfp_body" /\ sfp_new = <<>>) => ~available'
    ]_vars

\* C12 witness: with the timeline available, a later call in which every
\* source failed is about to return.
C12_Witness ==
    /\ available
    /\ pc["ui"] = "sfp_body"
    /\ sfp_count = 2
    /\ Len(sfp_src) >= 1
    /\ sfp_new = <<>>

\* priority(i) > priority(j) for the cursor idx on a timeline of n handles.
PriorityGt(i, j, idx, n) ==
    PrioNum(i, idx, n) * PrioDen(j, idx, n) > PrioNum(j, idx, n) * PrioDen(i, idx, n)

\* The place of index i in the order that (idx, n) alone determine: behind
\* every index of higher priority and every smaller index of equal priority.
Rank(i, idx, n) ==
    1 + Cardinality({j \in 0..(n - 1) :
                        \/ PriorityGt(j, i, idx, n)
                        \/ (~PriorityGt(i, j, idx, n) /\ j < i)})

\* C13: after every seek the priority order holds each index of the timeline
\* exactly once and is the order determined by (index, N) alone.
C13_OrderDeterministic ==
    [][(pc["ui"] = "seek_sort" /\ pc'["ui"] = "idle") =>
        LET n == Len(volumes')
            o == indices_by_cache_priority'
        IN /\ Len(o) = n
           /\ \A i \in 0..(n - 1) : Cardinality({k \in 1..n : o[k] = i}) = 1
           /\ \A k \in 1..n : k = Rank(o[k], index', n)
    ]_vars

\* C13 witness: a seek to the last handle of the longest timeline has
\* returned while payloads are resident.
C13_Witness ==
    /\ pc["ui"] = "idle"
    /\ Len(volumes) = MaxPrioN
    /\ index = MaxPrioN - 1
    /\ memory_used > 1
    /\ indices_by_cache_priority[1] = index
    /\ indices_by_cache_priority[2] = 0

\* C14: after seek the priority order is non-increasing in
\* priority(i) = 4 / (1 + ((i - index) mod N)) + 1 / (1 + ((index - i) mod N)):
\* no index stands before an index of strictly higher priority.
C14_OrderByPriority ==
    [][(pc["ui"] = "seek_sort" /\ pc'["ui"] = "idle") =>
        LET n == Len(volumes')
            o == indices_by_cache_priority'
        IN \A k \in 1..Len(o) : \A l \in (k + 1)..Len(o) :
              ~PriorityGt(o[l], o[k], index', n)
    ]_vars

\* C14 witness: a seek into the middle of the longest timeline has put the
\* handle just behind the cursor ahead of the one farthest ahead of it.
C14_Witness ==
    /\ pc["ui"] = "idle"
    /\ Len(volumes) = MaxPrioN
    /\ index = 2
    /\ indices_by_cache_priority[MaxPrioN - 1] = 1
    /\ indices_by_cache_priority[MaxPrioN] = 0

\* C15: when get returns a handle, that handle has the most recent access
\* time of all handles of the timeline.
C15_GetTouches ==
    pc["ui"] = "got" =>
        \A v \in Range(volumes) : hs[g_vol["ui"]].atime >= hs[v].atime

\* The handle at the 0-based position k of the timeline.
At(k) == hs[volumes[k + 1]]

\* Positions of the members of the nearest group after / before the cursor.
NextMembers ==
    {k \in 0..(Len(volumes) - 1) :
        /\ At(k).grp > At(index).grp
        /\ \A j \in 0..(Len(volumes) - 1) :
              At(j).grp > At(index).grp => At(k).grp <= At(j).grp}
PrevMembers ==
    {k \in 0..(Len(volumes) - 1) :
        /\ At(k).grp < At(index).grp
        /\ \A j \in 0..(Len(volumes) - 1) :
              At(j).grp < At(index).grp => At(k).grp >= At(j).grp}

\* Twice the circular phase distance of handles a and b, times both cycle
\* lengths: d = |pa - pb|, replaced by 1 - d when d > 0.5.
Distance2(a, b) ==
    LET x == a.tim * b.n_times
        y == b.tim * a.n_times
        d == IF x >= y THEN x - y ELSE y - x
        one == a.n_times * b.n_times
    IN IF 2 * d > one THEN 2 * (one - d) ELSE 2 * d

\* The member at position k is at least as close in phase to the cursor as
\* the member at position m.
Closer(k, m) ==
    Distance2(At(index), At(k)) * At(m).n_times
        <= Distance2(At(index), At(m)) * At(k).n_times

C17_PhaseInUnitInterval ==
    \A v \in Range(volumes) : hs[v].tim < hs[v].n_times

\* The VolumeImage was resident when call k was made.
ResidentBefore(k) == k > 1 /\ vi_log[k - 1].image.kind # "none"

\* C18: every load() leaves the VolumeImage resident with a payload, whatever
\* the read found, and a load() on a resident VolumeImage returns success and
\* keeps the payload it found, installing nothing.
C18_LoadLeavesResident ==
    \A k \in 1..Len(vi_log) :
        vi_log[k].op = "load" =>
            /\ vi_log[k].image.kind # "none"
            /\ ResidentBefore(k) =>
                  /\ vi_log[k].ret = "ok"
                  /\ vi_log[k].image = vi_log[k - 1].image
                  /\ vi_log[k].installs = vi_log[k - 1].installs

\* C18 witness: a load that found a payload of the wrong size left the
\* placeholder, and a second load, with the file now unreadable, returned
\* success.
C18_Witness ==
    /\ Len(vi_log) = 2
    /\ vi_log[1].op = "load"
    /\ vi_log[1].disk = "size"
    /\ vi_log[1].image.kind = "zeros"
    /\ vi_log[2].op = "load"
    /\ vi_log[2].disk = "unreadable"
    /\ vi_log[2].ret = "ok"

\* C19: a load() that substitutes the zero-filled placeholder returns an
\* error.
C19_PlaceholderReportsError ==
    \A k \in 1..Len(vi_log) :
        ( /\ vi_log[k].op = "load"
          /\ ~ResidentBefore(k)
          /\ vi_log[k].image.kind = "zeros" ) => vi_log[k].ret = "error"

C21_SingleDaemon == RunningDaemons <= 1

\* The order _make_cache_priorities completes for cursor c on n volumes.
CompleteOrder(c, n) == SortPrio(RangeList(n), c, n)

\* The first handle of the scanned order that is not resident.
FirstNonResident(order) ==
    LET k == CHOOSE k \in 1..Len(order) :
                 /\ ~is_loaded(hs, volumes[order[k] + 1])
                 /\ \A j \in 1..(k - 1) : is_loaded(hs, volumes[order[j] + 1])
    IN volumes[order[k] + 1]

\* C22: whenever the daemon picks a handle to load, the order it scanned is
\* the complete, sorted result of a seek (for some cursor), never a partially
\* built or not yet sorted list, and the handle is the first non-resident one
\* of that order, also when a seek runs concurrently with the scan.
C22_LoadsByCompleteOrder ==
    [][(pc["cache"] = "d_scan" /\ pc'["cache"] = "d_acq") =>
          /\ \E c \in 0..(Len(volumes) - 1) :
                d_order = CompleteOrder(c, Len(volumes))
          /\ d_v' = FirstNonResident(d_order)]_vars

\* C23: at the moment the daemon holds the load lock and performs a load,
\* memory_used < memory_target, under every interleaving with foreground
\* loads and with changes of memory_target.
C23_DaemonLoadsBelowTarget ==
    pc["cache"] = "d_body" => memory_used < memory_target

\* C24: the daemon performs at most one load per iteration and holds the load
\* lock only for that load and its memory_used update: the threader wait, the
\* memory check, the scan and the sleep run without the lock, and the step
\* that loads releases the lock and ends the iteration, so a foreground get
\* waits on the daemon for one load at most.
C24_LockOnlyForOneLoad ==
    /\ [](load_lock = "cache" <=> pc["cache"] = "d_body")
    /\ [][(pc["cache"] = "d_body" /\ pc'["cache"] # "d_body") =>
             /\ load_lock' = Free
             /\ pc'["cache"] = "d_wait"
             /\ Loaded \subseteq {d_v}]_vars

\* C24 witness: a foreground get waits for the lock while the daemon holds it
\* for its load.
C24_Witness ==
    /\ pc["cache"] = "d_body"
    /\ load_lock = "cache"
    /\ pc["upd"] = "lv_acq"

\* A step in which the cache loads: the body of _load_volume or the locked
\* load of the daemon.
CacheLoadStep ==
    \/ \E t \in {"ui", "upd"} : pc[t] = "lv_body" /\ pc'[t] # "lv_body"
    \/ pc["cache"] = "d_body" /\ pc'["cache"] # "d_body"

\* The handles whose load fails in the step.
FailsNow == {v \in DOMAIN hs \cap DOMAIN hs' : ~hs[v].failed /\ hs'[v].failed}

\* C25: every failed payload load performed by the cache, by the foreground
\* _load_volume or by the daemon, is reported to the error sink exactly once,
\* and the failure neither keeps the handle from being marked resident nor
\* keeps the call from going on to its return.
C25_FailureReportedOnce ==
    [][CacheLoadStep =>
          \A v \in FailsNow :
              /\ hs'[v].loaded
              /\ hs'[v].reports = hs[v].reports + 1
              /\ \A t \in {"ui", "upd"} :
                     pc[t] = "lv_body" => pc'[t] = "lv_ret"]_vars

\* A step that unloads handle v: the eviction loop of _load_volume,
\* unload_volume on it, or the replacement of the list by set_file_paths.
UnloadedBy(v) ==
    \/ \E t \in {"ui", "upd"} : pc[t] = "lv_body" /\ v \in Range(evicted')
    \/ pc["ui"] = "ul_body" /\ u_v = v
    \/ pc["ui"] = "sfp_body" /\ pc'["ui"] = "sfp_sort" /\ v \in Range(volumes)

\* C26: after a load of a handle has failed, the handle stays resident with
\* its placeholder and its source is not read again, by get/_load_volume or by
\* the daemon, until the handle is unloaded by eviction, unload_volume or list
\* replacement.
C26_NoRetryWhileResident ==
    /\ [](\A v \in DOMAIN hs : hs[v].failed => (hs[v].loaded /\ hs[v].reads = 1))
    /\ [][\A v \in DOMAIN hs \cap DOMAIN hs' :
             hs[v].failed =>
                 \/ /\ hs'[v].loaded
                    /\ hs'[v].failed
                    /\ hs'[v].reads = hs[v].reads
                 \/ /\ ~hs'[v].loaded
                    /\ UnloadedBy(v)]_vars

\* C26 witness: the daemon holds the lock and calls load on a handle that a
\* foreground load has meanwhile left resident with its placeholder.
C26_Witness ==
    /\ pc["cache"] = "d_body"
    /\ d_v \in DOMAIN hs
    /\ hs[d_v].failed

\* The members of S at the minimal circular phase distance from the cursor.
Closest(S) == {k \in S : \A m \in S : Closer(k, m)}

\* The lowest and the highest position of a non-empty set of positions.
Lowest(S) == CHOOSE k \in S : \A m \in S : k <= m
Highest(S) == CHOOSE k \in S : \A m \in S : k >= m

HlFirst(k, ok) ==
    SelectSeq(SubSeq(hl.paths, 1, k), LAMBDA p : Files[p].ok = ok)

\* C28: if progress_callback signals cancellation after the k-th source,
\* set_file_paths reads the metadata of no source after the k-th, keeps
\* exactly the successfully read handles among the first k, returns only the
\* errors of the first k, and has invoked the callback once after each
\* processed source, with the counts 1, 2, ..., k in that order.
C28_CancelStopsIngestion ==
    hl.cancel \in 1..Len(hl.paths) =>
        /\ Len(hl.reads) <= hl.cancel
        /\ hl.reads = SubSeq(hl.paths, 1, Len(hl.reads))
        /\ hl.calls = [c \in 1..Len(hl.calls) |-> c]
        /\ Len(hl.calls) = IF hl.at = "callback" THEN Len(hl.reads) - 1
                           ELSE Len(hl.reads)
        /\ hl.at = "done" =>
              /\ Len(hl.reads) = hl.cancel
              /\ hl.volumes = HlFirst(hl.cancel, TRUE)
              /\ hl.file_errors = HlFirst(hl.cancel, FALSE)

\* C28 witness: a list of three sources was cancelled after the second; an
\* unreadable and a readable source came before the cancellation and an
\* unreadable one after it.
C28_Witness ==
    /\ hl.at = "done"
    /\ Len(hl.paths) = 3
    /\ hl.cancel = 2
    /\ Len(hl.volumes) = 1
    /\ Len(hl.file_errors) = 1
    /\ ~Files[hl.paths[3]].ok

\* The positions whose group_index equals that of the handle at the cursor.
SameGroup == {k \in 0..(Len(volumes) - 1) : At(k).grp = At(index).grp}

\* C29: get_first_group_index returns the smallest and get_last_group_index
\* the largest index whose group_index equals that of the handle at index, and
\* neither changes index or any other state of the timeline.
C29_GroupEdges ==
    /\ [](pc["ui"] = "nav_set" =>
            /\ nav_dir = "first" => nav_i = Lowest(SameGroup)
            /\ nav_dir = "last" => nav_i = Highest(SameGroup))
    /\ [][(pc["ui"] = "idle" /\ pc'["ui"] = "nav_set") =>
             UNCHANGED <<hs, tlVars, memory_target, load_lock, clock>>]_vars

\* C29 witness: get_first_group_index was asked from the last of at least
\* three volumes of one group and get_last_group_index would answer the
\* cursor itself.
C29_Witness ==
    /\ pc["ui"] = "nav_set"
    /\ nav_dir = "first"
    /\ Cardinality(SameGroup) >= 3
    /\ index = Highest(SameGroup)
    /\ nav_i = index - Cardinality(SameGroup) + 1
    /\ nav_i > 0

\* C30: a change of memory_target, also to a value below memory_used, evicts
\* nothing by itself, and a get of a resident handle evicts nothing; the next
\* _load_volume of a non-resident handle evicts in LRU order, and no more than
\* needed, until memory_used <= the new memory_target or only the requested
\* handle is resident.
C30_TargetChangeEvictsOnLoad ==
    /\ [][memory_target' # memory_target =>
             UNCHANGED <<hs, volumes, memory_used>>]_vars
    /\ [][(pc["ui"] = "lv_body" /\ pc'["ui"] = "lv_ret") =>
             LET v == Requested("ui")
                 R == Resident(hs, volumes) \ {v}
                 E == EvictedBy
             IN IF is_loaded(hs, v)
                THEN hs' = hs /\ memory_used' = memory_used
                ELSE /\ hs'[v].loaded
                     /\ E \subseteq R
                     /\ \A e \in E : \A r \in R \ E : hs[e].atime <= hs[r].atime
                     /\ \/ memory_used' <= memory_target
                        \/ Resident(hs', volumes) = {v}
                     /\ \A l \in E :
                           (\A e \in E : hs[e].atime <= hs[l].atime) =>
                               memory_used' + estimate_memory(hs, l)
                                   > memory_target]_vars

\* C30 witness: a load has evicted two handles to get within a target that
\* the tally exceeded before the load began.
C30_Witness ==
    /\ pc["ui"] = "lv_ret"
    /\ Len(evicted) >= 2
    /\ memory_used <= memory_target
    /\ memory_used - estimate_memory(hs, Requested("ui"))
           + SumCost(hs, Range(evicted)) > memory_target

\* C31: seek(index) and get(index, preload=False) change no handle's
\* residency, memory_used or volumes: seek changes only index and the
\* priority order, and get(preload=False) returns the handle at index without
\* loading, evicting or moving the cursor.
C31_SeekAndPeekFrame ==
    /\ [][(pc["ui"] = "seek_sort" \/ pc'["ui"] = "seek_sort") =>
             UNCHANGED <<hs, volumes, memory_used, memory_target, available,
                         load_lock>>]_vars
    /\ [][(pc["ui"] = "idle" /\ pc'["ui"] = "got") =>
             /\ UNCHANGED <<hs, volumes, memory_used, index,
                            indices_by_cache_priority, memory_target, available>>
             /\ g_vol'["ui"] = volumes[g_index'["ui"] + 1]]_vars

\* C31 witness: get(preload=False) has returned a handle that is not resident
\* and is not the one at the cursor, while another handle is resident.
C31_Witness ==
    /\ pc["ui"] = "got"
    /\ ~is_loaded(hs, g_vol["ui"])
    /\ g_index["ui"] # index
    /\ Resident(hs, volumes) # {}

\* The sum of period over the positions of S.
RECURSIVE SumPeriod(_)
SumPeriod(S) ==
    IF S = {} THEN 0
    ELSE LET k == CHOOSE k \in S : TRUE IN At(k).period + SumPeriod(S \ {k})

\* C32: after set_file_paths the accumulated time of each handle's label is
\* the sum of period over the handles before it in sorted order within its
\* group (0 for the first handle of a group), and the position and the total
\* of the label are the handle's sorted position and len(volumes).
C32_LabelsAccumulate ==
    \A k \in 0..(Len(volumes) - 1) :
        /\ At(k).label.time_sum =
               SumPeriod({j \in 0..(k - 1) : At(j).grp = At(k).grp})
        /\ At(k).label.index = k
        /\ At(k).label.n_volumes = Len(volumes)

\* C32 witness: three volumes were opened, the second continues the group of
\* the first with a positive accumulated time and the third starts a new
\* group at 0.
C32_Witness ==
    /\ Len(volumes) = 3
    /\ pc["ui"] = "idle"
    /\ At(1).grp = At(0).grp
    /\ At(1).label.time_sum > 0
    /\ At(2).grp # At(1).grp
    /\ At(2).label.time_sum = 0

\* Thread t is at an acquire, and the lock it asks for.
AtAcquire(t) == lk[t].todo # <<>> /\ Head(lk[t].todo).op = "acq"
Wants(t) == Head(lk[t].todo).lock

\* C33: no interleaving of get/_load_volume, unload_volume, set_file_paths and
\* daemon iterations deadlocks: the Timeline lock is never asked for by a
\* thread that holds a handle's lock, no thread asks for a lock it holds,
\* whenever a call is under way some thread can take its next step, and a
\* thread that has left its call holds no lock.
C33_NoDeadlock ==
    /\ \A t \in Threads :
          /\ AtAcquire(t) => Wants(t) \notin lk[t].held
          /\ (AtAcquire(t) /\ Wants(t) = "T") => lk[t].held = {}
          /\ lk[t].todo = <<>> => lk[t].held = {}
    /\ (\E t \in Threads : lk[t].todo # <<>>) =>
          \E t \in Threads :
              /\ lk[t].todo # <<>>
              /\ AtAcquire(t) => Holders(Wants(t)) = {}

\* C33 witness: the daemon holds the Timeline lock and waits for the lock of a
\* handle that the updater thread holds in vtk_image, while the UI thread
\* waits for the Timeline lock.
C33_Witness ==
    /\ "T" \in lk["cache"].held
    /\ AtAcquire("cache")
    /\ Wants("cache") \in lk["upd"].held
    /\ AtAcquire("ui")
    /\ Wants("ui") = "T"

\* C34: unload_volume(index) makes the handle non-resident and lowers
\* memory_used by the handle's cost only if the handle was resident; on a
\* handle that is not resident it leaves memory_used unchanged, and
\* memory_used never falls below zero.
C34_UnloadOnlyResident ==
    /\ [][(pc["ui"] = "ul_body" /\ pc'["ui"] = "idle") =>
            /\ ~hs'[u_v].loaded
            /\ memory_used' =
                  IF hs[u_v].loaded
                  THEN memory_used - estimate_memory(hs, u_v)
                  ELSE memory_used]_vars
    /\ [](memory_used >= 0)

\* C35: a set_file_paths call in which no source was read, because every
\* header read failed or the call was cancelled before one succeeded, leaves
\* volumes, index, cache_priority_order, memory_used, every handle and
\* available as they were, and returns one error for each processed source.
C35_FailedOpenChangesNothing ==
    /\ [](pc["ui"] = "sfp_body" /\ sfp_new = <<>> =>
             sfp_errs = [k \in 1..Len(sfp_src) |-> k])
    /\ [][(\/ pc["ui"] = "idle" /\ pc'["ui"] = "sfp_body" /\ sfp_new' = <<>>
           \/ pc["ui"] = "sfp_body" /\ sfp_new = <<>>) =>
            /\ pc["ui"] = "sfp_body" => pc'["ui"] = "idle"
            /\ UNCHANGED <<volumes, index, indices_by_cache_priority,
                           memory_used, hs, available>>]_vars

\* C35 witness: with a resident handle and the cursor moved off 0, a call
\* whose only processed source failed is about to return.
C35_Witness ==
    /\ pc["ui"] = "sfp_body"
    /\ sfp_new = <<>>
    /\ Len(sfp_src) = 1
    /\ available
    /\ index > 0
    /\ memory_used > 0
    /\ \E k \in 1..Len(volumes) : hs[volumes[k]].loaded

C37_CursorThenSuccessor ==
    [][(pc["ui"] = "seek_sort" /\ pc'["ui"] = "idle" /\ Len(volumes') >= 2) =>
        /\ indices_by_cache_priority'[1] = index'
        /\ indices_by_cache_priority'[2] = (index' + 1) % Len(volumes')
    ]_vars

\* C37 witness: a seek to the fourth handle of the longest timeline has
\* returned.
C37_Witness ==
    /\ pc["ui"] = "idle"
    /\ Len(volumes) = MaxPrioN
    /\ index = 3
    /\ SubSeq(indices_by_cache_priority, 1, 3) = <<3, 4, 5>>
    /\ memory_used = 0

\* memory_used has reached memory_target, or every handle is resident.
FullOrAllResident ==
    \/ memory_used >= memory_target
    \/ \A k \in 1..Len(volumes) : hs[volumes[k]].loaded

\* C38: once no foreground operation occurs any more and no priority task is
\* active, the running daemon makes finitely many loads: from some point on
\* memory_used >= memory_target or every handle is resident, and the daemon's
\* iterations change neither the handles nor memory_used nor the timeline.
C38_DaemonQuiesces ==
    (<>[][RunCache]_vars /\ <>[](~player_alive /\ pc["cache"] # "off"))
        => /\ <>[]FullOrAllResident
           /\ <>[][UNCHANGED <<hs, memory_used, volumes, index,
                               indices_by_cache_priority, available>>]_vars

\* C38 witness: the daemon, after loads of its own, sleeps with every handle of
\* the longest timeline resident and memory_used at memory_target.
C38_Witness ==
    /\ pc["cache"] = "d_wait"
    /\ ~player_alive
    /\ Len(volumes) = MaxPrioN
    /\ memory_used = MaxPrioN
    /\ memory_target = MaxPrioN
    /\ \A k \in 1..Len(volumes) : hs[volumes[k]].loaded

\* The updater threads that are alive.
AliveUpdaters == {k \in DOMAIN vu.threads : is_alive(k)}

\* C39: every queue() call is eventually followed by an update that reads
\* timeline.index after the call, and must_update is never left true, with
\* the lock not held by queue(), while no updater thread is alive that has
\* yet to test the flag.
C39_QueuedUpdateHappens ==
    /\ []((vu.must_update /\ vu.load_lock # "ui") =>
            \E k \in AliveUpdaters : vu.threads[k] \in {"start", "test", "work", "get"})
    /\ \A n \in 1..MaxQueue : (vu.queued >= n) ~> (vu.seen >= n)

\* C40: at most one updater thread is alive at any time, and a thread is
\* started only inside queue(), when none is alive.
C40_OneUpdaterThread ==
    /\ [](Cardinality(AliveUpdaters) <= 1)
    /\ [][Len(vu'.threads) # Len(vu.threads) =>
            /\ vu.q = "in"
            /\ AliveUpdaters = {}
            /\ Len(vu'.threads) = Len(vu.threads) + 1]_vars

\* C40 witness: queue() holds the lock while the thread started by an
\* earlier call is still alive, its get under way.
C40_Witness ==
    /\ vu.q = "in"
    /\ vu.thread = 1
    /\ vu.threads = <<"get">>
    /\ pc["upd"] = "lv_body"


====
